---- MODULE Spec2Model ----
(***************************************************************************)
(* Blotato n8n node: Blotato.execute (the node version with the Video      *)
(* resource).  execute walks the input items in index order; for each item *)
(* it reads the item's parameters, builds one request (method, uri, body), *)
(* hands it to the host's authenticated request helper and appends one     *)
(* output item.                                                            *)
(*                                                                         *)
(* Text that the code inspects character by character (comma separated     *)
(* lists, the scheduled time) is a sequence of one-character strings.      *)
(* Text that the code only copies or compares is a TLA+ string.  A value   *)
(* that may be undefined is a sequence of length 0 (undefined) or 1.       *)
(***************************************************************************)
EXTENDS Integers, Sequences, FiniteSets, TLC

\* ------------------------------------------------------------- bounds
MaxItems == 2

\* ------------------------------------------------------------- constants
THREAD_SUPPORTED_PLATFORMS == {"twitter", "threads", "bluesky"}

BINARY_UPLOAD_MAX_SIZE_MB == 15

BINARY_UPLOAD_MAX_SIZE_BYTES == BINARY_UPLOAD_MAX_SIZE_MB * 1024 * 1024

API_ENDPOINTS ==
  [ VIDEO_TEMPLATES      |-> "/v2/videos/templates",
    VIDEO_FROM_TEMPLATES |-> "/v2/videos/from-templates",
    VIDEO_GET            |-> "/v2/videos/creations",
    VIDEO_DELETE         |-> "/v2/videos",
    POST_GET             |-> "/v2/posts" ]

\* The platforms whose posts must carry media (the list literal in execute).
RequiresMediaPlatforms == {"instagram", "tiktok", "pinterest", "youtube"}

\* The cases of the platform switch.
SwitchPlatforms ==
  {"facebook", "tiktok", "bluesky", "threads", "linkedin", "instagram",
   "pinterest", "youtube", "twitter"}

\* The name of the credential execute asks the host for.
CredentialName == "blotatoApi"

\* ------------------------------------------------------------- text
Whitespace == {" "}

Digits == {"0", "1", "2", "3", "5"}

\* The characters of a TLA+ string literal cannot be read by TLC, so text the
\* code scans is written as a tuple of pieces: one-character strings where the
\* code looks at characters, whole words (a property name, a status) where
\* it only compares them.
RECURSIVE TrimStart(_)
TrimStart(s) ==
  IF s = <<>> THEN s
  ELSE IF Head(s) \in Whitespace THEN TrimStart(Tail(s)) ELSE s

RECURSIVE TrimEnd(_)
TrimEnd(s) ==
  IF s = <<>> THEN s
  ELSE IF s[Len(s)] \in Whitespace THEN TrimEnd(SubSeq(s, 1, Len(s) - 1)) ELSE s

\* String.prototype.trim
Trim(s) == TrimEnd(TrimStart(s))

\* String.prototype.includes for a one-character needle
Includes(s, c) == \E k \in 1..Len(s) : s[k] = c

\* String.prototype.split(','): "" gives one empty segment.
RECURSIVE Split(_, _)
Split(s, sep) ==
  IF ~Includes(s, sep) THEN <<s>>
  ELSE LET k == CHOOSE j \in 1..Len(s) :
                  s[j] = sep /\ \A h \in 1..(j - 1) : s[h] # sep
       IN <<SubSeq(s, 1, k - 1)>> \o Split(SubSeq(s, k + 1, Len(s)), sep)

\* s.split(',').map((url) => url.trim()).filter(Boolean)
SplitTrimFilter(s) ==
  LET parts   == Split(s, ",")
      trimmed == [k \in 1..Len(parts) |-> Trim(parts[k])]
  IN SelectSeq(trimmed, LAMBDA x : x # <<>>)

\* scheduledTime.match(/[+-]\d{2}:\d{2}$/)
MatchesOffsetSuffix(s) ==
  LET n == Len(s) IN
  /\ n >= 6
  /\ s[n - 5] \in {"+", "-"}
  /\ s[n - 4] \in Digits
  /\ s[n - 3] \in Digits
  /\ s[n - 2] = ":"
  /\ s[n - 1] \in Digits
  /\ s[n] \in Digits

\* ------------------------------------------------------------- values
\* A JavaScript value as the code meets it: a parameter given by an
\* expression, or the result of JSON.parse.
JNull == [t |-> "null"]

JNum(digits) == [t |-> "number", s |-> digits]

JStr(chars) == [t |-> "string", s |-> chars]

JArr(elems) == [t |-> "array", a |-> elems]

\* members: a sequence of [k |-> chars, v |-> value]
JObj(members) == [t |-> "object", o |-> members]

IsString(v) == v.t = "string"

IsArray(v) == v.t = "array"

IsObject(v) == v.t = "object"

\* obj[key]: <<>> when the value has no such property, else <<value>>.
Prop(v, key) ==
  IF ~IsObject(v) THEN <<>>
  ELSE LET hits == {k \in 1..Len(v.o) : v.o[k].k = key}
       IN IF hits = {} THEN <<>>
          ELSE <<v.o[CHOOSE k \in hits : \A h \in hits : h <= k].v>>

\* JavaScript truthiness of a value
Truthy(v) ==
  CASE v.t = "null"   -> FALSE
    [] v.t = "string" -> v.s # <<>>
    [] v.t = "number" -> v.s # <<"0">>
    [] OTHER          -> TRUE

\* ------------------------------------------------------------- JSON.parse
\* The JSON reader, for the part of JSON the node meets: arrays, objects,
\* string literals without escapes, and unsigned integers.  It reads the text
\* left to right with a stack of the containers that are still open.
Quote == "\""

ParseFail == [ok |-> FALSE, v |-> JNull, n |-> 0]

ParseOk(v, n) == [ok |-> TRUE, v |-> v, n |-> n]

\* last index of the run of digits that starts at k
RECURSIVE DigitsEnd(_, _)
DigitsEnd(t, k) ==
  IF k + 1 <= Len(t) /\ t[k + 1] \in Digits THEN DigitsEnd(t, k + 1) ELSE k

\* index of the quote that closes the literal opened at k, 0 when there is none
ClosingQuote(t, k) ==
  LET closing == {j \in (k + 1)..Len(t) : t[j] = Quote}
  IN IF closing = {} THEN 0
     ELSE CHOOSE x \in closing : \A y \in closing : x <= y

\* An open container: kind is "top", "array" or "object"; expect says what
\* may come next.
Frame(kind, expect) ==
  [kind |-> kind, a |-> <<>>, o |-> <<>>, key |-> <<>>, expect |-> expect]

ParserStart == [k |-> 1, stack |-> <<Frame("top", "value")>>, ok |-> TRUE]

\* The innermost open container takes the value v.
Deliver(stack, v) ==
  LET n == Len(stack)
      f == stack[n]
  IN [stack EXCEPT ![n] =
        IF f.kind = "array"
          THEN [f EXCEPT !.a = Append(@, v), !.expect = "commaOrEnd"]
        ELSE IF f.kind = "object"
          THEN [f EXCEPT !.o = Append(@, [k |-> f.key, v |-> v]),
                         !.expect = "commaOrEnd"]
        ELSE [f EXCEPT !.a = <<v>>, !.expect = "end"]]

\* The innermost container closes and is delivered to the one around it.
Close(stack) ==
  LET n == Len(stack)
      f == stack[n]
  IN Deliver(SubSeq(stack, 1, n - 1),
             IF f.kind = "array" THEN JArr(f.a) ELSE JObj(f.o))

\* One step of the reader at the piece t[st.k].
ParserStep(t, st) ==
  LET k    == st.k
      c    == t[k]
      n    == Len(st.stack)
      f    == st.stack[n]
      fail == [st EXCEPT !.ok = FALSE]
      set(expect) == [st.stack EXCEPT ![n].expect = expect]
  IN IF c \in Whitespace THEN [st EXCEPT !.k = k + 1]
     ELSE IF f.expect \in {"value", "valueOrEnd"}
       THEN IF c = "[" THEN
              [st EXCEPT !.k = k + 1,
                         !.stack = Append(@, Frame("array", "valueOrEnd"))]
            ELSE IF c = "{" THEN
              [st EXCEPT !.k = k + 1,
                         !.stack = Append(@, Frame("object", "keyOrEnd"))]
            ELSE IF c = Quote THEN
              LET j == ClosingQuote(t, k)
              IN IF j = 0 THEN fail
                 ELSE [st EXCEPT !.k = j + 1,
                                 !.stack = Deliver(@, JStr(SubSeq(t, k + 1, j - 1)))]
            ELSE IF c \in Digits THEN
              LET e == DigitsEnd(t, k)
              IN [st EXCEPT !.k = e + 1,
                            !.stack = Deliver(@, JNum(SubSeq(t, k, e)))]
            ELSE IF c = "]" /\ f.expect = "valueOrEnd" THEN
              [st EXCEPT !.k = k + 1, !.stack = Close(@)]
            ELSE fail
     ELSE IF f.expect \in {"key", "keyOrEnd"}
       THEN IF c = Quote THEN
              LET j == ClosingQuote(t, k)
              IN IF j = 0 THEN fail
                 ELSE [st EXCEPT !.k = j + 1,
                                 !.stack[n].key = SubSeq(t, k + 1, j - 1),
                                 !.stack[n].expect = "colon"]
            ELSE IF c = "}" /\ f.expect = "keyOrEnd" THEN
              [st EXCEPT !.k = k + 1, !.stack = Close(@)]
            ELSE fail
     ELSE IF f.expect = "colon"
       THEN IF c = ":" THEN [st EXCEPT !.k = k + 1, !.stack = set("value")]
            ELSE fail
     ELSE IF f.expect = "commaOrEnd"
       THEN IF c = "," THEN
              [st EXCEPT !.k = k + 1,
                         !.stack = set(IF f.kind = "array" THEN "value" ELSE "key")]
            ELSE IF (c = "]" /\ f.kind = "array") \/ (c = "}" /\ f.kind = "object")
              THEN [st EXCEPT !.k = k + 1, !.stack = Close(@)]
            ELSE fail
     ELSE fail

RECURSIVE ParserRun(_, _)
ParserRun(t, st) ==
  IF ~st.ok \/ st.k > Len(t) THEN st ELSE ParserRun(t, ParserStep(t, st))

\* JSON.parse(text): ok is FALSE where JSON.parse throws a SyntaxError.
JsonParse(t) ==
  LET st == ParserRun(t, ParserStart) IN
  IF st.ok /\ Len(st.stack) = 1 /\ st.stack[1].expect = "end"
    THEN ParseOk(st.stack[1].a[1], st.k)
    ELSE ParseFail

\* ------------------------------------------------------------- errors
NodeOperationError(message, i) ==
  [name |-> "NodeOperationError", message |-> message, itemIndex |-> i]

NodeApiError(cause, i) ==
  [name |-> "NodeApiError", message |-> <<cause>>, itemIndex |-> i]

\* An error that is not raised by the node's own checks (a TypeError of the
\* runtime).
RuntimeError(name, i) ==
  [name |-> name, message |-> <<>>, itemIndex |-> i]

\* platform.charAt(0).toUpperCase() + platform.slice(1)
Capitalize(platform) ==
  CASE platform = "instagram" -> "Instagram"
    [] platform = "tiktok"    -> "Tiktok"
    [] platform = "pinterest" -> "Pinterest"
    [] platform = "youtube"   -> "Youtube"
    [] OTHER                  -> platform

RequiresMediaMessage(platform) ==
  <<Capitalize(platform), " requires you to post an image or video.">>

\* What building a request gives: an error thrown, or the request options.
Thrown(e) == [error |-> <<e>>, options |-> <<>>]

Built(o) == [error |-> <<>>, options |-> <<o>>]

\* IRequestOptions as execute fills it: uri is the list of the parts that are
\* concatenated, body is <<>> when the request has none.
Request(method, uri, body) ==
  [method |-> method, uri |-> uri, json |-> TRUE, body |-> body]

\* truthiness of an optional string of the options collection
OptTruthy(o) == o # <<>> /\ o[1] # ""

\* ------------------------------------------------------------- post/create
\* Fault: the segments of the text are trimmed but the empty ones are kept.
ParseMediaUrls_KeepsEmpty(mediaUrlsParam) ==
  IF IsArray(mediaUrlsParam)
    THEN LET kept == SelectSeq(mediaUrlsParam.a,
                               LAMBDA url : Truthy(url) /\ IsString(url))
         IN [k \in 1..Len(kept) |-> kept[k].s]
  ELSE IF IsString(mediaUrlsParam)
    THEN LET parts == Split(mediaUrlsParam.s, ",")
         IN [k \in 1..Len(parts) |-> Trim(parts[k])]
  ELSE <<>>

\* The mediaUrls of post.content: the IIFE over postContentMediaUrls.
ParseMediaUrls(mediaUrlsParam) ==
  IF IsArray(mediaUrlsParam)
    THEN LET kept == SelectSeq(mediaUrlsParam.a,
                               LAMBDA url : Truthy(url) /\ IsString(url))
         IN [k \in 1..Len(kept) |-> kept[k].s]
  ELSE IF IsString(mediaUrlsParam) THEN SplitTrimFilter(mediaUrlsParam.s)
  ELSE <<>>

\* Fault: 'youtube' missing from the list of platforms that require media.
MissingRequiredMedia_WithoutYoutube(platform, mediaUrls) ==
  platform \in {"instagram", "tiktok", "pinterest"} /\ Len(mediaUrls) = 0

\* requiresMedia && mediaUrls.length === 0
MissingRequiredMedia(platform, mediaUrls) ==
  platform \in RequiresMediaPlatforms /\ Len(mediaUrls) = 0

\* hasTimezone of the scheduled time
HasTimezone(scheduledTime) ==
  \/ Includes(scheduledTime, "Z")
  \/ Includes(scheduledTime, "+")
  \/ MatchesOffsetSuffix(scheduledTime)

\* body.scheduledTime: <<>> when the option is empty or not given.
ScheduledTime(postOptions) ==
  IF postOptions.scheduledTime # <<>> /\ postOptions.scheduledTime[1] # <<>>
    THEN LET scheduledTime == postOptions.scheduledTime[1]
         IN IF ~HasTimezone(scheduledTime)
              THEN <<scheduledTime \o <<"Z">>>>
              ELSE <<scheduledTime>>
  ELSE <<>>

\* target as the common options set it: only targetType.
CommonTarget(platform) ==
  [ targetType |-> platform,
    pageId |-> <<>>, mediaType |-> <<>>, link |-> <<>>,
    privacyLevel |-> <<>>, disabledComments |-> <<>>, disabledDuet |-> <<>>,
    disabledStitch |-> <<>>, isBrandedContent |-> <<>>, isYourBrand |-> <<>>,
    isAiGenerated |-> <<>>, autoAddMusic |-> <<>>, isDraft |-> <<>>,
    title |-> <<>>, imageCoverIndex |-> <<>>, videoCoverTimestamp |-> <<>>,
    replyControl |-> <<>>, audioName |-> <<>>, collaborators |-> <<>>,
    altText |-> <<>>, coverImageUrl |-> <<>>, boardId |-> <<>>,
    privacyStatus |-> <<>>, shouldNotifySubscribers |-> <<>>,
    isMadeForKids |-> <<>>, containsSyntheticMedia |-> <<>> ]

\* One post of a manual thread.
ManualThreadPost(post) ==
  [ text |-> JStr(post.text),
    mediaUrls |-> IF post.mediaUrls # <<>>
                    THEN LET urls == SplitTrimFilter(post.mediaUrls)
                         IN [k \in 1..Len(urls) |-> JStr(urls[k])]
                    ELSE <<>> ]

\* One post of a thread given as an array: post.text || '' and the three
\* shapes of post.mediaUrls.
ArrayThreadPost(post) ==
  LET text  == Prop(post, <<"text">>)
      media == Prop(post, <<"mediaUrls">>)
  IN [ text |-> IF text # <<>> /\ Truthy(text[1]) THEN text[1] ELSE JStr(<<>>),
       mediaUrls |->
         IF media # <<>> /\ Truthy(media[1])
           THEN IF IsArray(media[1]) THEN media[1].a
                ELSE IF IsString(media[1])
                  THEN LET urls == SplitTrimFilter(media[1].s)
                       IN [k \in 1..Len(urls) |-> JStr(urls[k])]
                ELSE <<>>
         ELSE <<>> ]

\* Fault: the thread parameters are read on every platform.
ThreadPosts_OnEveryPlatform(item, i) ==
  IF item.threadInputMethod = "manual"
    THEN LET posts == item.postContentAdditionalPosts.posts
         IN [ error |-> <<>>,
              additionalPosts |->
                IF Len(posts) > 0
                  THEN <<[k \in 1..Len(posts) |-> ManualThreadPost(posts[k])]>>
                  ELSE <<>> ]
  ELSE IF item.threadInputMethod = "array"
    THEN LET given  == item.threadPostsArray
             parses == IsString(given) /\ Trim(given.s) # <<>>
             parsed == JsonParse(given.s)
             posts  == IF parses THEN parsed.v ELSE given
         IN IF parses /\ ~parsed.ok
              THEN [ error |-> <<NodeOperationError(
                                   <<"Thread Posts must be a valid JSON array.">>, i)>>,
                     additionalPosts |-> <<>> ]
            ELSE IF IsArray(posts) /\ Len(posts.a) > 0
              THEN IF \E k \in 1..Len(posts.a) : posts.a[k] = JNull
                     THEN [ error |-> <<RuntimeError("TypeError", i)>>,
                            additionalPosts |-> <<>> ]
                     ELSE [ error |-> <<>>,
                            additionalPosts |->
                              <<[k \in 1..Len(posts.a) |-> ArrayThreadPost(posts.a[k])]>> ]
            ELSE [error |-> <<>>, additionalPosts |-> <<>>]
  ELSE [error |-> <<>>, additionalPosts |-> <<>>]

\* The thread handling of post/create.  additionalPosts is <<>> when the
\* body gets no additionalPosts, else <<the list>>.
ThreadPosts(item, i) ==
  IF item.platform \notin THREAD_SUPPORTED_PLATFORMS
    THEN [error |-> <<>>, additionalPosts |-> <<>>]
  ELSE IF item.threadInputMethod = "manual"
    THEN LET posts == item.postContentAdditionalPosts.posts
         IN [ error |-> <<>>,
              additionalPosts |->
                IF Len(posts) > 0
                  THEN <<[k \in 1..Len(posts) |-> ManualThreadPost(posts[k])]>>
                  ELSE <<>> ]
  ELSE IF item.threadInputMethod = "array"
    THEN LET given  == item.threadPostsArray
             parses == IsString(given) /\ Trim(given.s) # <<>>
             parsed == JsonParse(given.s)
             posts  == IF parses THEN parsed.v ELSE given
         IN IF parses /\ ~parsed.ok
              THEN [ error |-> <<NodeOperationError(
                                   <<"Thread Posts must be a valid JSON array.">>, i)>>,
                     additionalPosts |-> <<>> ]
            ELSE IF IsArray(posts) /\ Len(posts.a) > 0
              THEN IF \E k \in 1..Len(posts.a) : posts.a[k] = JNull
                     THEN [ error |-> <<RuntimeError("TypeError", i)>>,
                            additionalPosts |-> <<>> ]
                     ELSE [ error |-> <<>>,
                            additionalPosts |->
                              <<[k \in 1..Len(posts.a) |-> ArrayThreadPost(posts.a[k])]>> ]
            ELSE [error |-> <<>>, additionalPosts |-> <<>>]
  ELSE [error |-> <<>>, additionalPosts |-> <<>>]

\* Fault: the collaborators without the slice to the first three.
Collaborators_Unlimited(postOptions) ==
  IF postOptions.instagramCollaborators # <<>>
     /\ postOptions.instagramCollaborators[1] # <<>>
    THEN LET names == SplitTrimFilter(postOptions.instagramCollaborators[1])
         IN IF Len(names) > 0 THEN <<names>> ELSE <<>>
  ELSE <<>>

\* collaborators of an Instagram post: split, trim, drop empties, first three.
Collaborators(postOptions) ==
  IF postOptions.instagramCollaborators # <<>>
     /\ postOptions.instagramCollaborators[1] # <<>>
    THEN LET names == SplitTrimFilter(postOptions.instagramCollaborators[1])
             first == SubSeq(names, 1, IF Len(names) < 3 THEN Len(names) ELSE 3)
         IN IF Len(first) > 0 THEN <<first>> ELSE <<>>
  ELSE <<>>

\* Fault: only the locator object is read, a plain string is dropped.
LinkedinPageId_ObjectOnly(postOptions) ==
  LET given == postOptions.linkedinPageId IN
  IF given # <<>> /\ given[1].isObject /\ given[1].value # ""
    THEN <<given[1].value>>
    ELSE <<>>

\* pageId of a LinkedIn post: the option is a string or a locator object.
LinkedinPageId(postOptions) ==
  LET given == postOptions.linkedinPageId IN
  IF given # <<>> /\ (given[1].isObject \/ given[1].value # "")
    THEN IF given[1].value # "" THEN <<given[1].value>> ELSE <<>>
  ELSE <<>>

\* Fault: the cover settings are sent for a draft too.
TiktokTarget_CoverInDraft(item, postOptions, target) ==
  LET isDraft     == item.postCreateTiktokOptionIsDraft
      tiktokTitle == item.postCreateTiktokOptionTitle
  IN [ target EXCEPT
         !.privacyLevel     = <<item.postCreateTiktokOptionPrivacyLevel>>,
         !.disabledComments = <<item.postCreateTiktokOptionDisabledComments>>,
         !.disabledDuet     = <<item.postCreateTiktokOptionDisabledDuet>>,
         !.disabledStitch   = <<item.postCreateTiktokOptionDisabledStitch>>,
         !.isBrandedContent = <<item.postCreateTiktokOptionIsBrandedContent>>,
         !.isYourBrand      = <<item.postCreateTiktokOptionIsYourBrand>>,
         !.isAiGenerated    = <<item.postCreateTiktokOptionIsAiGenerated>>,
         !.autoAddMusic     = <<item.postCreateTiktokOptionAutoAddMusic>>,
         !.isDraft          = <<isDraft>>,
         !.title            = IF tiktokTitle # "" THEN <<tiktokTitle>> ELSE @,
         !.imageCoverIndex  = postOptions.imageCoverIndex,
         !.videoCoverTimestamp = postOptions.videoCoverTimestamp ]

\* case 'tiktok' of the platform switch
TiktokTarget(item, postOptions, target) ==
  LET isDraft     == item.postCreateTiktokOptionIsDraft
      tiktokTitle == item.postCreateTiktokOptionTitle
  IN [ target EXCEPT
         !.privacyLevel     = <<item.postCreateTiktokOptionPrivacyLevel>>,
         !.disabledComments = <<item.postCreateTiktokOptionDisabledComments>>,
         !.disabledDuet     = <<item.postCreateTiktokOptionDisabledDuet>>,
         !.disabledStitch   = <<item.postCreateTiktokOptionDisabledStitch>>,
         !.isBrandedContent = <<item.postCreateTiktokOptionIsBrandedContent>>,
         !.isYourBrand      = <<item.postCreateTiktokOptionIsYourBrand>>,
         !.isAiGenerated    = <<item.postCreateTiktokOptionIsAiGenerated>>,
         !.autoAddMusic     = <<item.postCreateTiktokOptionAutoAddMusic>>,
         !.isDraft          = <<isDraft>>,
         !.title            = IF tiktokTitle # "" THEN <<tiktokTitle>> ELSE @,
         !.imageCoverIndex  = IF isDraft THEN <<>> ELSE postOptions.imageCoverIndex,
         !.videoCoverTimestamp =
            IF isDraft THEN <<>> ELSE postOptions.videoCoverTimestamp ]

\* case 'instagram' of the platform switch
InstagramTarget(postOptions, target) ==
  [ target EXCEPT
      !.mediaType = IF OptTruthy(postOptions.instagramMediaType)
                      THEN postOptions.instagramMediaType ELSE @,
      !.audioName = IF OptTruthy(postOptions.instagramAudioName)
                      THEN postOptions.instagramAudioName ELSE @,
      !.collaborators = Collaborators(postOptions),
      !.altText = IF OptTruthy(postOptions.instagramAltText)
                    THEN postOptions.instagramAltText ELSE @,
      !.coverImageUrl = IF OptTruthy(postOptions.instagramCoverImageUrl)
                          THEN postOptions.instagramCoverImageUrl ELSE @ ]

\* case 'pinterest' of the platform switch
PinterestTarget(item, postOptions, target) ==
  LET pinTitle == item.postCreatePinterestOptionTitle
  IN [ target EXCEPT
         !.boardId = <<item.pinterestBoardId.value>>,
         !.title   = IF pinTitle # "" THEN <<pinTitle>> ELSE @,
         !.altText = IF OptTruthy(postOptions.pinterestAltText)
                       THEN postOptions.pinterestAltText ELSE @,
         !.link    = IF OptTruthy(postOptions.pinterestLink)
                       THEN postOptions.pinterestLink ELSE @ ]

\* case 'youtube' of the platform switch
YoutubeTarget(item, target) ==
  [ target EXCEPT
      !.title         = <<item.postCreateYoutubeOptionTitle>>,
      !.privacyStatus = <<item.postCreateYoutubeOptionPrivacyStatus>>,
      !.shouldNotifySubscribers =
         <<item.postCreateYoutubeOptionShouldNotifySubscribers>>,
      !.isMadeForKids = <<item.postCreateYoutubeOptionMadeForKids>>,
      !.containsSyntheticMedia =
         <<item.postCreateYoutubeOptionContainsSyntheticMedia>> ]

\* case 'facebook' of the platform switch
FacebookTarget(item, postOptions, target) ==
  [ target EXCEPT
      !.pageId    = <<item.facebookPageId.value>>,
      !.mediaType = IF OptTruthy(postOptions.facebookMediaType)
                      THEN postOptions.facebookMediaType ELSE @,
      !.link      = IF OptTruthy(postOptions.facebookLink)
                      THEN postOptions.facebookLink ELSE @ ]

\* case 'threads' of the platform switch
ThreadsTarget(postOptions, target) ==
  [ target EXCEPT !.replyControl =
      IF OptTruthy(postOptions.threadsReplyControl)
        THEN postOptions.threadsReplyControl ELSE @ ]

\* case 'linkedin' of the platform switch
LinkedinTarget(postOptions, target) ==
  [target EXCEPT !.pageId = LinkedinPageId(postOptions)]

\* Fault: case 'bluesky' without its break, falling through to 'threads'.
PlatformTarget_BlueskyFallsThrough(item, postOptions, target) ==
  CASE item.platform = "facebook"  -> FacebookTarget(item, postOptions, target)
    [] item.platform = "tiktok"    -> TiktokTarget(item, postOptions, target)
    [] item.platform = "bluesky"   -> ThreadsTarget(postOptions, target)
    [] item.platform = "threads"   -> ThreadsTarget(postOptions, target)
    [] item.platform = "linkedin"  -> LinkedinTarget(postOptions, target)
    [] item.platform = "instagram" -> InstagramTarget(postOptions, target)
    [] item.platform = "pinterest" -> PinterestTarget(item, postOptions, target)
    [] item.platform = "youtube"   -> YoutubeTarget(item, target)
    [] item.platform = "twitter"   -> target

\* The platform switch: the target of a supported platform.
PlatformTarget(item, postOptions, target) ==
  CASE item.platform = "facebook"  -> FacebookTarget(item, postOptions, target)
    [] item.platform = "tiktok"    -> TiktokTarget(item, postOptions, target)
    [] item.platform = "bluesky"   -> target
    [] item.platform = "threads"   -> ThreadsTarget(postOptions, target)
    [] item.platform = "linkedin"  -> LinkedinTarget(postOptions, target)
    [] item.platform = "instagram" -> InstagramTarget(postOptions, target)
    [] item.platform = "pinterest" -> PinterestTarget(item, postOptions, target)
    [] item.platform = "youtube"   -> YoutubeTarget(item, target)
    [] item.platform = "twitter"   -> target

\* Fault: useNextFreeSlot dropped when a scheduled time is given.
UseNextFreeSlot_OnlyUnscheduled(item) ==
  item.useNextFreeSlot /\ ScheduledTime(item.options) = <<>>

\* body.useNextFreeSlot
UseNextFreeSlot(item) == item.useNextFreeSlot

\* resource 'post', operation 'create'
PostCreate(item, i) ==
  LET platform    == item.platform
      mediaUrls   == ParseMediaUrls(item.postContentMediaUrls)
      postOptions == item.options
      thread      == ThreadPosts(item, i)
  IN IF MissingRequiredMedia(platform, mediaUrls)
       THEN Thrown(NodeOperationError(RequiresMediaMessage(platform), i))
     ELSE IF thread.error # <<>> THEN Thrown(thread.error[1])
     ELSE IF platform \notin SwitchPlatforms
       THEN Thrown(NodeOperationError(
              <<"Platform \"", platform, "\" is not supported for resource \"post\".">>, i))
     ELSE Built(Request("POST", <<"/v2/posts">>,
            << [ post |->
                   [ target  |-> PlatformTarget(item, postOptions,
                                                CommonTarget(platform)),
                     content |-> [ platform        |-> platform,
                                   text            |-> item.postContentText,
                                   mediaUrls       |-> mediaUrls,
                                   additionalPosts |-> thread.additionalPosts ],
                     accountId |-> item.accountId.value ],
                 scheduledTime   |-> ScheduledTime(postOptions),
                 useNextFreeSlot |-> UseNextFreeSlot(item) ] >>))

\* ------------------------------------------------------------- video
\* extractTemplateId
extractTemplateId(param) == param.value

\* Fault: the test for '[' or '{' made on the untrimmed text.
TemplateInput_NoTrim(value) ==
  IF IsString(value) /\ value.s # <<>> /\ Head(value.s) \in {"[", "{"}
    THEN LET parsed == JsonParse(value.s)
         IN IF parsed.ok THEN parsed.v ELSE value
  ELSE value

\* One mapped template input: a string that looks like JSON is replaced by
\* its parsed value when it parses, and kept when it does not.
TemplateInput(value) ==
  IF IsString(value)
    THEN LET trimmedValue == Trim(value.s)
         IN IF trimmedValue # <<>> /\ Head(trimmedValue) \in {"[", "{"}
              THEN LET parsed == JsonParse(trimmedValue)
                   IN IF parsed.ok THEN parsed.v ELSE value
              ELSE value
  ELSE value

\* inputs of the video/create body, from the resource mapper's data
TemplateInputs(templateInputsData) ==
  IF templateInputsData.value # <<>>
    THEN LET inputs == templateInputsData.value[1]
         IN [k \in 1..Len(inputs) |->
               [k |-> inputs[k].k, v |-> TemplateInput(inputs[k].v)]]
  ELSE <<>>

\* Fault: video/delete without the check of its id.
Video_DeleteWithoutId(item, i) ==
  IF item.operation = "create"
    THEN Built(Request("POST", <<API_ENDPOINTS.VIDEO_FROM_TEMPLATES>>,
           << [ templateId |-> extractTemplateId(item.templateId),
                inputs     |-> TemplateInputs(item.templateInputs),
                prompt     |-> item.prompt,
                render     |-> TRUE ] >>))
  ELSE IF item.operation = "get"
    THEN IF item.videoId = ""
           THEN Thrown(NodeOperationError(<<"Video ID is required">>, i))
           ELSE Built(Request("GET",
                  <<API_ENDPOINTS.VIDEO_GET, "/", item.videoId>>, <<>>))
  ELSE IF item.operation = "delete"
    THEN Built(Request("DELETE",
           <<API_ENDPOINTS.VIDEO_DELETE, "/", item.videoId>>, <<>>))
  ELSE Thrown(NodeOperationError(
         <<"Operation \"", item.operation,
           "\" is not supported for resource \"video\".">>, i))

\* resource 'video'
Video(item, i) ==
  IF item.operation = "create"
    THEN Built(Request("POST", <<API_ENDPOINTS.VIDEO_FROM_TEMPLATES>>,
           << [ templateId |-> extractTemplateId(item.templateId),
                inputs     |-> TemplateInputs(item.templateInputs),
                prompt     |-> item.prompt,
                render     |-> TRUE ] >>))
  ELSE IF item.operation = "get"
    THEN IF item.videoId = ""
           THEN Thrown(NodeOperationError(<<"Video ID is required">>, i))
           ELSE Built(Request("GET",
                  <<API_ENDPOINTS.VIDEO_GET, "/", item.videoId>>, <<>>))
  ELSE IF item.operation = "delete"
    THEN IF item.videoId = ""
           THEN Thrown(NodeOperationError(<<"Video ID is required">>, i))
           ELSE Built(Request("DELETE",
                  <<API_ENDPOINTS.VIDEO_DELETE, "/", item.videoId>>, <<>>))
  ELSE Thrown(NodeOperationError(
         <<"Operation \"", item.operation,
           "\" is not supported for resource \"video\".">>, i))

\* ------------------------------------------------------------- media
\* dataBuffer.toString('base64'): the host's encoding of the buffer's bytes,
\* kept as the tagged bytes.
ToBase64(dataBuffer) == <<"base64:", dataBuffer.bytes>>

\* Fault: the limit itself refused (>= for >).
ExceedsUploadLimit_Inclusive(dataBuffer) ==
  dataBuffer.length >= BINARY_UPLOAD_MAX_SIZE_BYTES

\* dataBuffer.length > BINARY_UPLOAD_MAX_SIZE_BYTES
ExceedsUploadLimit(dataBuffer) == dataBuffer.length > BINARY_UPLOAD_MAX_SIZE_BYTES

\* Fault: no fallback for an item without a mime type.
MimeType_NoFallback(binaryData) == binaryData.mimeType

\* binaryData.mimeType || 'application/octet-stream'
MimeType(binaryData) ==
  IF binaryData.mimeType # "" THEN binaryData.mimeType
  ELSE "application/octet-stream"

\* `data:${mimeType};base64,${base64}`
DataUri(binaryData) ==
  <<"data:", MimeType(binaryData), ";base64,">> \o ToBase64(binaryData.buffer)

\* resource 'media'.  item.binary is <<>> when the item holds no binary data
\* under binaryPropertyName (assertBinaryData throws), else <<the data>>.
Media(item, i) ==
  IF item.operation = "upload"
    THEN IF item.useBinaryData
           THEN IF item.binary = <<>>
                  THEN Thrown(NodeOperationError(
                         <<"This operation expects the node's input data to contain a binary file '",
                           item.binaryPropertyName, "', but none was found">>, i))
                ELSE IF ExceedsUploadLimit(item.binary[1].buffer)
                  THEN Thrown(NodeOperationError(
                         <<"File size exceeds 15MB limit.">>, i))
                ELSE Built(Request("POST", <<"/v2/media">>,
                       <<[url |-> DataUri(item.binary[1])]>>))
           ELSE Built(Request("POST", <<"/v2/media">>,
                  <<[url |-> <<item.mediaUrl>>]>>))
  ELSE Thrown(NodeOperationError(
         <<"Operation \"", item.operation,
           "\" is not supported for resource \"media\".">>, i))

\* ------------------------------------------------------------- post
\* Fault: every operation of resource 'post' creates a post (the dispatch of
\* the node before it had a get operation).
Post_AlwaysCreate(item, i) == PostCreate(item, i)

\* resource 'post'
Post(item, i) ==
  IF item.operation = "get"
    THEN IF item.postSubmissionId = ""
           THEN Thrown(NodeOperationError(<<"Post Submission ID is required">>, i))
           ELSE Built(Request("GET",
                  <<API_ENDPOINTS.POST_GET, "/", item.postSubmissionId>>, <<>>))
  ELSE IF item.operation = "create" THEN PostCreate(item, i)
  ELSE Thrown(NodeOperationError(
         <<"Operation \"", item.operation,
           "\" is not supported for resource \"post\".">>, i))

\* Fault: the final else of the dispatch missing, an unknown resource handled
\* as 'post'.
BuildOptions_UnknownAsPost(item, i) ==
  IF item.resource = "video" THEN Video(item, i)
  ELSE IF item.resource = "media" THEN Media(item, i)
  ELSE Post(item, i)

\* The dispatch on resource: the request built for item i, or the error
\* thrown before any request.
BuildOptions(item, i) ==
  IF item.resource = "video" THEN Video(item, i)
  ELSE IF item.resource = "media" THEN Media(item, i)
  ELSE IF item.resource = "post" THEN Post(item, i)
  ELSE Thrown(NodeOperationError(
         <<"Resource \"", item.resource, "\" is not supported.">>, i))

\* options.uri = credentials.server + options.uri
WithServer(options, credentials) ==
  [options EXCEPT !.uri = <<credentials.server>> \o @]

\* ------------------------------------------------------------- responses
JBool(b) == [t |-> "boolean", b |-> b]

\* obj[key] = value on an object value
SetProp(obj, key, value) ==
  IF \E k \in 1..Len(obj.o) : obj.o[k].k = key
    THEN JObj([k \in 1..Len(obj.o) |->
                 IF obj.o[k].k = key THEN [k |-> key, v |-> value] ELSE obj.o[k]])
    ELSE JObj(Append(obj.o, [k |-> key, v |-> value]))

\* typeof response === 'string' ? JSON.parse(response) : response
ResponseData(response) ==
  IF IsString(response) THEN JsonParse(response.s) ELSE ParseOk(response, 0)

VideoPendingStatuses ==
  {<<"generating-script">>, <<"script-ready">>, <<"queueing">>}

BLOTATO_URLS == [BILLING |-> "https://my.blotato.com/settings/billing"]

VideoHint ==
  JStr(<<" Your video/carousel is not done yet. Wait a little longer, and check you have sufficient credits if you are generating AI images or AI videos: ",
         BLOTATO_URLS.BILLING>>)

PostInProgressHint == JStr(<<" Your post is still being processed. Check again in a moment.">>)

\* `${value}` inside a template literal
TemplateText(v) ==
  IF v.t \in {"string", "number"} THEN v.s
  ELSE IF v.t = "boolean" THEN <<IF v.b THEN "true" ELSE "false">>
  ELSE IF v.t = "array" /\ v.a = <<>> THEN <<>>
  ELSE <<"[object Object]">>

PostFailedHint(errorMessage) ==
  JStr(<<" Post failed: ">> \o TemplateText(errorMessage))

PostPublishedHint(publicUrl) ==
  JStr(<<" Post published successfully! View it at: ">> \o TemplateText(publicUrl))

\* json of the output item of video/get
VideoGetJson(response, responseData) ==
  LET itemProp == Prop(responseData, <<"item">>)
      status   == IF itemProp = <<>> THEN <<>> ELSE Prop(itemProp[1], <<"status">>)
  IN IF /\ status # <<>>
        /\ Truthy(status[1])
        /\ IsString(status[1])
        /\ status[1].s \in VideoPendingStatuses
       THEN SetProp(responseData, <<"item">>,
                    SetProp(itemProp[1], <<"_hint">>, VideoHint))
       ELSE response

\* Fault: the hint is written whether or not the response has its own.
PostGetJson_Overwrites(responseData) ==
  LET status       == Prop(responseData, <<"status">>)
      errorMessage == Prop(responseData, <<"errorMessage">>)
      publicUrl    == Prop(responseData, <<"publicUrl">>)
      is(s)        == status # <<>> /\ status[1] = JStr(<<s>>)
  IN IF is("in-progress")
       THEN SetProp(responseData, <<"_hint">>, PostInProgressHint)
     ELSE IF is("failed") /\ errorMessage # <<>> /\ Truthy(errorMessage[1])
       THEN SetProp(responseData, <<"_hint">>, PostFailedHint(errorMessage[1]))
     ELSE IF is("published") /\ publicUrl # <<>> /\ Truthy(publicUrl[1])
       THEN SetProp(responseData, <<"_hint">>, PostPublishedHint(publicUrl[1]))
     ELSE responseData

\* json of the output item of post/get
PostGetJson(responseData) ==
  LET status       == Prop(responseData, <<"status">>)
      hint         == Prop(responseData, <<"_hint">>)
      errorMessage == Prop(responseData, <<"errorMessage">>)
      publicUrl    == Prop(responseData, <<"publicUrl">>)
      noHint       == hint = <<>> \/ ~Truthy(hint[1])
      is(s)        == status # <<>> /\ status[1] = JStr(<<s>>)
  IN IF is("in-progress")
       THEN IF noHint THEN SetProp(responseData, <<"_hint">>, PostInProgressHint)
            ELSE responseData
     ELSE IF is("failed") /\ errorMessage # <<>> /\ Truthy(errorMessage[1])
       THEN IF noHint
              THEN SetProp(responseData, <<"_hint">>, PostFailedHint(errorMessage[1]))
              ELSE responseData
     ELSE IF is("published") /\ publicUrl # <<>> /\ Truthy(publicUrl[1])
       THEN IF noHint
              THEN SetProp(responseData, <<"_hint">>, PostPublishedHint(publicUrl[1]))
              ELSE responseData
     ELSE responseData

\* The output item pushed for a response, or the error thrown by JSON.parse.
OutputItem(item, response, i) ==
  LET parsed == ResponseData(response)
      out(json) == [ error  |-> <<>>,
                     output |-> <<[ json       |-> json,
                                    pairedItem |-> [item |-> i],
                                    error      |-> <<>> ]>> ]
  IN IF item.resource = "video" /\ item.operation = "get"
       THEN IF ~parsed.ok
              THEN [error |-> <<RuntimeError("SyntaxError", i)>>, output |-> <<>>]
              ELSE out(VideoGetJson(response, parsed.v))
     ELSE IF item.resource = "video" /\ item.operation = "delete"
       THEN out(JObj(<< [k |-> <<"success">>, v |-> JBool(TRUE)],
                        [k |-> <<"message">>,
                         v |-> JStr(<<"Video ID ", item.videoId,
                                      " deleted successfully">>)] >>))
     ELSE IF item.resource = "post" /\ item.operation = "get"
       THEN IF ~parsed.ok
              THEN [error |-> <<RuntimeError("SyntaxError", i)>>, output |-> <<>>]
              ELSE out(PostGetJson(parsed.v))
     ELSE out(response)

\* error.message || 'An error occurred', joined with the description
CombinedMessage(error) ==
  LET errorMessage     == IF error.message # "" THEN error.message
                          ELSE "An error occurred"
      errorDescription == error.description
  IN IF errorDescription # "" /\ errorDescription # errorMessage
       THEN <<errorMessage, ": ", errorDescription>>
       ELSE <<errorMessage>>

\* Fault: the error item paired with the first input item.
ErrorItem_PairedWithFirst(error, i) ==
  [ json       |-> [error |-> CombinedMessage(error), errorDetails |-> error],
    pairedItem |-> [item |-> 0],
    error      |-> <<NodeApiError(error.message, i)>> ]

\* The output item pushed for a failed request under continueOnFail.
ErrorItem(error, i) ==
  [ json       |-> [error |-> CombinedMessage(error), errorDetails |-> error],
    pairedItem |-> [item |-> i],
    error      |-> <<NodeApiError(error.message, i)>> ]

\* ------------------------------------------------------------- inputs
\* The parameters and binary data of one input item.  Every parameter has a
\* value: the host gives a hidden parameter its default.
NoOptions ==
  [ scheduledTime |-> <<>>, linkedinPageId |-> <<>>, facebookMediaType |-> <<>>,
    facebookLink |-> <<>>, instagramMediaType |-> <<>>,
    instagramAudioName |-> <<>>, instagramCollaborators |-> <<>>,
    instagramAltText |-> <<>>, instagramCoverImageUrl |-> <<>>,
    pinterestAltText |-> <<>>, pinterestLink |-> <<>>,
    threadsReplyControl |-> <<>>, imageCoverIndex |-> <<>>,
    videoCoverTimestamp |-> <<>> ]

\* An options collection that carries a value for every platform at once.
AllOptions ==
  [ scheduledTime |-> <<>>,
    linkedinPageId |-> <<[isObject |-> TRUE, value |-> "li-page"]>>,
    facebookMediaType |-> <<"reel">>, facebookLink |-> <<"https://l/fb">>,
    instagramMediaType |-> <<"story">>, instagramAudioName |-> <<"song">>,
    instagramCollaborators |-> <<<<"a", ",", " ", "b", ",", "c", ",", "d">>>>,
    instagramAltText |-> <<"alt-ig">>,
    instagramCoverImageUrl |-> <<"https://l/cover">>,
    pinterestAltText |-> <<"alt-pin">>, pinterestLink |-> <<"https://l/pin">>,
    threadsReplyControl |-> <<"mentioned_only">>, imageCoverIndex |-> <<2>>,
    videoCoverTimestamp |-> <<1500>> ]

DefaultItem ==
  [ resource |-> "post", operation |-> "create",
    templateId |-> [value |-> "tpl-1"],
    templateInputs |-> [mappingMode |-> "defineBelow", value |-> <<>>],
    prompt |-> "a prompt", videoId |-> "",
    useBinaryData |-> FALSE, binaryPropertyName |-> "data",
    mediaUrl |-> "https://m/a.jpg", binary |-> <<>>,
    postSubmissionId |-> "",
    platform |-> "twitter", accountId |-> [value |-> "acc-1"],
    postContentText |-> "hello", postContentMediaUrls |-> JStr(<<>>),
    options |-> NoOptions, useNextFreeSlot |-> FALSE,
    threadInputMethod |-> "manual",
    postContentAdditionalPosts |-> [posts |-> <<>>],
    threadPostsArray |-> JStr(<<>>),
    postCreateTiktokOptionPrivacyLevel |-> "PUBLIC_TO_EVERYONE",
    postCreateTiktokOptionTitle |-> "",
    postCreateTiktokOptionIsDraft |-> FALSE,
    postCreateTiktokOptionDisabledComments |-> FALSE,
    postCreateTiktokOptionDisabledDuet |-> FALSE,
    postCreateTiktokOptionDisabledStitch |-> FALSE,
    postCreateTiktokOptionIsBrandedContent |-> FALSE,
    postCreateTiktokOptionIsYourBrand |-> FALSE,
    postCreateTiktokOptionIsAiGenerated |-> FALSE,
    postCreateTiktokOptionAutoAddMusic |-> FALSE,
    facebookPageId |-> [value |-> "fb-page"],
    pinterestBoardId |-> [value |-> "board-1"],
    postCreatePinterestOptionTitle |-> "",
    postCreateYoutubeOptionTitle |-> "yt title",
    postCreateYoutubeOptionPrivacyStatus |-> "private",
    postCreateYoutubeOptionShouldNotifySubscribers |-> FALSE,
    postCreateYoutubeOptionMadeForKids |-> FALSE,
    postCreateYoutubeOptionContainsSyntheticMedia |-> FALSE ]

\* "2025-01-01T10:00:00", a date and time without a timezone
LocalDateTime ==
  <<"2", "0", "2", "5", "-", "0", "1", "-", "0", "1", "T",
    "1", "0", ":", "0", "0", ":", "0", "0">>

\* The values of options.scheduledTime: not given, empty, and a date-time
\* with each ISO 8601 timezone designator (none, Z, +hh:mm, -hh:mm, +hhmm,
\* -hhmm) and a date alone.
ScheduledTimes ==
  { <<>>,
    <<<<>>>>,
    <<LocalDateTime>>,
    <<LocalDateTime \o <<"Z">>>>,
    <<LocalDateTime \o <<"+", "0", "5", ":", "3", "0">>>>,
    <<LocalDateTime \o <<"-", "0", "5", ":", "0", "0">>>>,
    <<LocalDateTime \o <<"+", "0", "5", "3", "0">>>>,
    <<LocalDateTime \o <<"-", "0", "5", "0", "0">>>>,
    <<SubSeq(LocalDateTime, 1, 10)>> }

\* The values of postContentMediaUrls: comma separated text, arrays from an
\* expression, and a value of another type.
MediaUrlParams ==
  { JStr(<<>>),
    JStr(<<" ">>),
    JStr(<<"a">>),
    JStr(<<" ", "a", " ", ",", ",", " ", "b", ",">>),
    JArr(<<>>),
    JArr(<<JStr(<<"a">>), JStr(<<>>), JNum(<<"5">>), JStr(<<" ", "b">>)>>),
    JNull }

Platforms == SwitchPlatforms \cup {"mastodon"}

\* Option collections: none, every field set, every field set but empty.
EmptyOptions ==
  [ scheduledTime |-> <<<<>>>>,
    linkedinPageId |-> <<[isObject |-> FALSE, value |-> ""]>>,
    facebookMediaType |-> <<"">>, facebookLink |-> <<"">>,
    instagramMediaType |-> <<"">>, instagramAudioName |-> <<"">>,
    instagramCollaborators |-> <<<<>>>>,
    instagramAltText |-> <<"">>, instagramCoverImageUrl |-> <<"">>,
    pinterestAltText |-> <<"">>, pinterestLink |-> <<"">>,
    threadsReplyControl |-> <<"">>, imageCoverIndex |-> <<0>>,
    videoCoverTimestamp |-> <<0>> ]

OptionProfiles ==
  { NoOptions, AllOptions, EmptyOptions,
    [AllOptions EXCEPT !.linkedinPageId = <<[isObject |-> FALSE, value |-> "li-page"]>>],
    [AllOptions EXCEPT !.linkedinPageId = <<[isObject |-> TRUE, value |-> ""]>>,
                       !.instagramCollaborators = <<<<" ", ",", " ">>>>] }

\* A JSON text piece by piece
Q(word) == <<Quote, word, Quote>>

PostJsonA ==
  <<"{">> \o Q("text") \o <<":">> \o Q("p1") \o <<",">> \o Q("mediaUrls")
    \o <<":", "[">> \o Q("u") \o <<"]", "}">>

PostJsonB ==
  <<"{">> \o Q("mediaUrls") \o <<":", Quote, "a", ",", " ", "b", Quote, "}">>

ThreadArrayParams ==
  { JStr(<<>>),
    JStr(<<" ">>),
    JStr(<<"[", "1">>),
    JStr(<<"{", "}">>),
    JStr(<<"[", "]">>),
    JStr(<<"[">> \o PostJsonA \o <<",", " ">> \o PostJsonB \o <<"]">>),
    JArr(<<JObj(<<[k |-> <<"text">>, v |-> JStr(<<"p1">>)]>>), JNum(<<"1">>)>>),
    JArr(<<JNull>>),
    JObj(<<>>) }

ManualThreads ==
  { <<>>,
    << [text |-> <<"p1">>, mediaUrls |-> <<"a", ",", " ", "b", ",">>],
       [text |-> <<"p2">>, mediaUrls |-> <<>>] >> }

TemplateInputChoices ==
  { <<>>,
    << << [k |-> "title", v |-> JStr(<<"plain">>)],
          [k |-> "slides", v |-> JStr(<<" ", "[", "1", ",", "2", "]">>)],
          [k |-> "config", v |-> JStr(<<"{", "1">>)],
          [k |-> "count", v |-> JNum(<<"3">>)] >> >>,
    << << [k |-> "quote", v |-> JStr(<<"{">> \o Q("text") \o <<":">>
                                      \o Q("hi") \o <<"}", " ">>)],
          [k |-> "blank", v |-> JStr(<<" ">>)],
          [k |-> "open", v |-> JStr(<<"[">>)],
          [k |-> "list", v |-> JArr(<<JStr(<<"[", "1", "]">>)>>)] >> >> }

\* Binary data of an item: sizes around the upload limit.
BufferLengths ==
  { 0, 3, BINARY_UPLOAD_MAX_SIZE_BYTES - 1, BINARY_UPLOAD_MAX_SIZE_BYTES,
    BINARY_UPLOAD_MAX_SIZE_BYTES + 1, 60 * 1024 * 1024, 60 * 1024 * 1024 + 1 }

BinaryChoices ==
  {<<>>} \cup
  { <<[mimeType |-> m, buffer |-> [length |-> n, bytes |-> "bytes"]]>> :
      m \in {"", "image/png"}, n \in BufferLengths }

VideoItems ==
  { [DefaultItem EXCEPT !.resource = "video", !.operation = "create",
                        !.templateInputs.value = v] : v \in TemplateInputChoices }
  \cup
  { [DefaultItem EXCEPT !.resource = "video", !.operation = op, !.videoId = id] :
      op \in {"get", "delete", "render"}, id \in {"", "vid-1"} }

MediaItems ==
  { [DefaultItem EXCEPT !.resource = "media", !.operation = "upload",
                        !.useBinaryData = TRUE, !.binary = b] : b \in BinaryChoices }
  \cup
  { [DefaultItem EXCEPT !.resource = "media", !.operation = op,
                        !.binary = b] :
      op \in {"upload", "delete"}, b \in {<<>>, <<[mimeType |-> "image/png",
                 buffer |-> [length |-> 3, bytes |-> "bytes"]]>>} }

PostGetItems ==
  { [DefaultItem EXCEPT !.operation = op, !.postSubmissionId = id] :
      op \in {"get", "delete"}, id \in {"", "sub-1"} }

\* post/create: scheduling on every platform
PostScheduleItems ==
  { [DefaultItem EXCEPT !.platform = pl, !.postContentMediaUrls = JStr(<<"a">>),
                        !.options.scheduledTime = st, !.useNextFreeSlot = slot] :
      pl \in Platforms, st \in ScheduledTimes, slot \in BOOLEAN }

\* post/create: every shape of the media parameter on every platform
PostMediaItems ==
  { [DefaultItem EXCEPT !.platform = pl, !.postContentMediaUrls = m] :
      pl \in Platforms, m \in MediaUrlParams }

\* post/create: the options collection and the platform's own parameters
PostTargetItems ==
  { [DefaultItem EXCEPT !.platform = pl, !.postContentMediaUrls = JStr(<<"a">>),
                        !.options = o,
                        !.postCreateTiktokOptionIsDraft = d,
                        !.postCreateTiktokOptionTitle = t,
                        !.postCreatePinterestOptionTitle = t] :
      pl \in Platforms, o \in OptionProfiles, d \in BOOLEAN,
      t \in {"", "a title"} }

\* post/create: threads
PostThreadItems ==
  { [DefaultItem EXCEPT !.platform = pl, !.postContentMediaUrls = m,
                        !.threadInputMethod = im,
                        !.postContentAdditionalPosts.posts = th] :
      pl \in Platforms, m \in {JStr(<<>>), JStr(<<"a">>)},
      im \in {"manual", "none"}, th \in ManualThreads }
  \cup
  { [DefaultItem EXCEPT !.platform = pl, !.postContentMediaUrls = m,
                        !.threadInputMethod = "array",
                        !.postContentAdditionalPosts.posts =
                           CHOOSE th \in ManualThreads : th # <<>>,
                        !.threadPostsArray = arr] :
      pl \in Platforms, m \in {JStr(<<>>), JStr(<<"a">>)},
      arr \in ThreadArrayParams }

\* The values of options.instagramCollaborators: one name, names with blank
\* entries between them, padded names, more than three names, only blanks.
CollaboratorParams ==
  { <<"a">>,
    <<" ", "a", " ", ",", ",", " ", "b">>,
    <<",", "a", ",", "b", " ", ",", " ", ",", "c", ",", "d", ",", "e">>,
    <<"a", " ", "b", ",", "c">>,
    <<",", " ", ",">>,
    <<" ">> }

\* post/create on instagram: the collaborators option
PostCollaboratorItems ==
  { [DefaultItem EXCEPT !.platform = "instagram",
                        !.postContentMediaUrls = JStr(<<"a">>),
                        !.options.instagramCollaborators = <<c>>] :
      c \in CollaboratorParams }

\* post/create on facebook: the page chosen from the list, typed, or left empty
PostPageItems ==
  { [DefaultItem EXCEPT !.platform = "facebook",
                        !.facebookPageId.value = id] :
      id \in {"", "123456789012345"} }

OtherItems == { [DefaultItem EXCEPT !.resource = "account"] }

\* The input items execute may be given.
Items ==
  VideoItems \cup MediaItems \cup PostGetItems \cup PostScheduleItems
  \cup PostMediaItems \cup PostTargetItems \cup PostThreadItems
  \cup PostCollaboratorItems \cup PostPageItems \cup OtherItems

\* What the API may answer to the request of an item.
Created == JObj(<<[k |-> <<"id">>, v |-> JStr(<<"r-1">>)]>>)

VideoResponse(status) ==
  JObj(<<[k |-> <<"item">>,
          v |-> JObj(<<[k |-> <<"id">>, v |-> JStr(<<"vid-1">>)],
                       [k |-> <<"status">>, v |-> JStr(<<status>>)]>>)]>>)

PostResponse(status, key, value) ==
  JObj(<<[k |-> <<"status">>, v |-> JStr(<<status>>)],
         [k |-> <<key>>, v |-> JStr(<<value>>)]>>)

Responses(item) ==
  IF item.resource = "video" /\ item.operation = "get"
    THEN { VideoResponse("queueing"), VideoResponse("generating-script"),
           VideoResponse("done"), Created,
           JObj(<<[k |-> <<"item">>,
                   v |-> JObj(<<[k |-> <<"id">>, v |-> JStr(<<"vid-1">>)]>>)]>>),
           JStr(<<"{">> \o Q("item") \o <<":", "{">> \o Q("status") \o <<":">>
                \o Q("script-ready") \o <<"}", "}">>),
           JStr(<<"{">> \o Q("item") \o <<":", "{">> \o Q("status") \o <<":">>
                \o Q("done") \o <<"}", "}">>),
           JStr(<<"<", "html", ">">>) }
  ELSE IF item.resource = "post" /\ item.operation = "get"
    THEN { PostResponse("in-progress", "postSubmissionId", "sub-1"),
           PostResponse("in-progress", "_hint", "from the API"),
           PostResponse("failed", "errorMessage", "rejected"),
           PostResponse("failed", "postSubmissionId", "sub-1"),
           PostResponse("published", "publicUrl", "https://x/1"),
           PostResponse("scheduled", "publicUrl", "https://x/1"),
           PostResponse("published", "postSubmissionId", "sub-1"),
           JObj(<<[k |-> <<"status">>, v |-> JStr(<<"in-progress">>)],
                  [k |-> <<"_hint">>, v |-> JStr(<<>>)]>>),
           JObj(<<[k |-> <<"status">>, v |-> JStr(<<"failed">>)],
                  [k |-> <<"_hint">>, v |-> JStr(<<"from the API">>)],
                  [k |-> <<"errorMessage">>, v |-> JStr(<<"rejected">>)]>>),
           JObj(<<[k |-> <<"_hint">>, v |-> JNull],
                  [k |-> <<"publicUrl">>, v |-> JStr(<<"https://x/1">>)],
                  [k |-> <<"status">>, v |-> JStr(<<"published">>)]>>),
           JStr(<<"<", "html", ">">>),
           JStr(<<"{">> \o Q("status") \o <<":">> \o Q("in-progress") \o <<"}">>) }
  ELSE {Created}

\* The errors the request helper may throw.
ApiErrors ==
  { [message |-> "", description |-> ""],
    [message |-> "Bad request", description |-> "Invalid media"] }

Servers == {"https://backend.blotato.com"}

\* ------------------------------------------------------------- execute
VARIABLES
  inputLen,        \* inputItems.length
  continueOnFail,  \* this.continueOnFail()
  credentials,     \* the blotatoApi credential
  i,               \* the loop index
  pc,              \* "build", "await" (the request is with the helper),
                   \* "done" (execute returned), "thrown" (execute threw)
  item,            \* <<the item at index i>> once its parameters were read
  options,         \* <<the request options>> while the request is awaited
  sent,            \* the calls of requestWithAuthentication, in order
  returnData,      \* the output items pushed so far
  thrown,          \* <<the error execute threw>>
  response         \* <<what the request of the item resolved with>>, kept
                   \* until the request of the next item is built

\* The state of one call of the list search getAccounts.
VARIABLES
  helper,          \* the request helper of the version of getAccounts:
                   \* "requestWithAuthentication" answers with JSON text,
                   \* "httpRequestWithAuthentication" with the parsed object
  searchPlatform,  \* the 'platform' parameter of the node
  searchPc,        \* "idle" (not called), "start", "await", "returned",
                   \* "thrown"
  searchSent,      \* the requests getAccounts issued, in order
  searchResponse,  \* <<the response the helper resolved with>>
  searchReturn,    \* <<the value getAccounts returned>>
  searchThrown     \* <<the error getAccounts threw>>

execVars ==
  <<inputLen, continueOnFail, credentials, i, pc, item, options, sent,
    returnData, thrown, response>>

searchVars ==
  <<helper, searchPlatform, searchPc, searchSent, searchResponse,
    searchReturn, searchThrown>>

vars == <<execVars, searchVars>>

Init ==
  /\ inputLen \in 0..MaxItems
  /\ continueOnFail \in BOOLEAN
  /\ credentials \in [server : Servers]
  /\ i = 0
  /\ pc = IF inputLen = 0 THEN "done" ELSE "build"
  /\ item = <<>>
  /\ options = <<>>
  /\ sent = <<>>
  /\ returnData = <<>>
  /\ thrown = <<>>
  /\ response = <<>>
  /\ helper = "httpRequestWithAuthentication"
  /\ searchPlatform = "twitter"
  /\ searchPc = "idle"
  /\ searchSent = <<>>
  /\ searchResponse = <<>>
  /\ searchReturn = <<>>
  /\ searchThrown = <<>>

\* The call of the request helper as the host sees it.
Call(credentialsType, requestOptions, index) ==
  [ item            |-> index,
    credentialsType |-> credentialsType,
    method          |-> requestOptions.method,
    uri             |-> requestOptions.uri ]

\* The loop body up to the await of the request: read the parameters of item
\* i, build the request or throw, prepend the server, call the helper.
BuildRequest ==
  /\ pc = "build"
  /\ i < inputLen
  /\ \E it \in Items :
       LET built == BuildOptions(it, i) IN
       /\ item' = <<it>>
       /\ IF built.error # <<>>
            THEN /\ thrown' = built.error
                 /\ pc' = "thrown"
                 /\ UNCHANGED <<options, sent>>
            ELSE LET request == WithServer(built.options[1], credentials) IN
                 /\ options' = <<request>>
                 /\ sent' = Append(sent, Call(CredentialName, request, i))
                 /\ pc' = "await"
                 /\ UNCHANGED thrown
  /\ response' = <<>>
  /\ UNCHANGED <<inputLen, continueOnFail, credentials, i, returnData>>
  /\ UNCHANGED searchVars

\* The loop's step to the next item, or the return of [returnData].
NextItem ==
  /\ i' = i + 1
  /\ pc' = IF i + 1 < inputLen THEN "build" ELSE "done"
  /\ item' = <<>>
  /\ options' = <<>>

\* The request helper resolves: push the output item for the response.
RequestSucceeds ==
  /\ pc = "await"
  /\ \E resolved \in Responses(item[1]) :
       LET handled == OutputItem(item[1], resolved, i) IN
       /\ response' = <<resolved>>
       /\ IF handled.error # <<>>
            THEN /\ thrown' = handled.error
                 /\ pc' = "thrown"
                 /\ UNCHANGED <<i, item, options, returnData>>
            ELSE /\ returnData' = Append(returnData, handled.output[1])
                 /\ NextItem
                 /\ UNCHANGED thrown
  /\ UNCHANGED <<inputLen, continueOnFail, credentials, sent>>
  /\ UNCHANGED searchVars

\* Fault: a rejected request becomes an error item whatever continueOnFail
\* says, and the loop goes on.
RequestFails_AlwaysContinues ==
  /\ pc = "await"
  /\ \E error \in ApiErrors :
       /\ returnData' = Append(returnData, ErrorItem(error, i))
       /\ NextItem
  /\ UNCHANGED <<inputLen, continueOnFail, credentials, sent, thrown,
                 response>>
  /\ UNCHANGED searchVars

\* Fault: a rejected request is built and issued again for the same item.
RequestFails_Retries ==
  /\ pc = "await"
  /\ pc' = "build"
  /\ item' = <<>>
  /\ options' = <<>>
  /\ UNCHANGED <<inputLen, continueOnFail, credentials, i, sent, returnData,
                 thrown, response>>
  /\ UNCHANGED searchVars

\* The request helper rejects: an error item under continueOnFail, else
\* execute throws a NodeApiError.
RequestFails ==
  /\ pc = "await"
  /\ \E error \in ApiErrors :
       IF continueOnFail
         THEN /\ returnData' = Append(returnData, ErrorItem(error, i))
              /\ NextItem
              /\ UNCHANGED thrown
         ELSE /\ thrown' = <<NodeApiError(error.message, i)>>
              /\ pc' = "thrown"
              /\ UNCHANGED <<i, item, options, returnData>>
  /\ UNCHANGED <<inputLen, continueOnFail, credentials, sent, response>>
  /\ UNCHANGED searchVars

Next == BuildRequest \/ RequestSucceeds \/ RequestFails

Spec == Init /\ [][Next]_vars

\* ------------------------------------------------------------- getAccounts
\* JSON.stringify of the API for the values of an accounts response.
RECURSIVE Stringify(_)
RECURSIVE StringifyAll(_, _)
StringifyAll(parts, k) ==
  IF k > Len(parts) THEN <<>>
  ELSE (IF k > 1 THEN <<",">> ELSE <<>>) \o parts[k] \o StringifyAll(parts, k + 1)

Stringify(v) ==
  CASE v.t = "string" -> <<Quote>> \o v.s \o <<Quote>>
    [] v.t = "number" -> v.s
    [] v.t = "array"  ->
         <<"[">> \o StringifyAll([k \in 1..Len(v.a) |-> Stringify(v.a[k])], 1)
                \o <<"]">>
    [] v.t = "object" ->
         <<"{">> \o StringifyAll([k \in 1..Len(v.o) |->
                     <<Quote>> \o v.o[k].k \o <<Quote, ":">>
                       \o Stringify(v.o[k].v)], 1)
                \o <<"}">>
    [] OTHER -> <<"null">>

\* AccountSearchItem
AccountSearchItem(id, fullname, username) ==
  JObj(<< [k |-> <<"id">>, v |-> JStr(id)],
          [k |-> <<"platform">>, v |-> JStr(<<"twitter">>)],
          [k |-> <<"fullname">>, v |-> JStr(fullname)],
          [k |-> <<"username">>, v |-> JStr(username)] >>)

Ann == AccountSearchItem(<<"1">>, <<"Ann", " ", "A">>, <<"ann">>)

Bob == AccountSearchItem(<<"2">>, <<>>, <<"bob">>)

\* an account without a fullname property
Cy ==
  JObj(<< [k |-> <<"id">>, v |-> JStr(<<"3">>)],
          [k |-> <<"username">>, v |-> JStr(<<"cy">>)] >>)

AccountLists ==
  { <<>>, <<Bob>>, <<Ann, Bob>>, <<Bob, Cy, Ann>>, <<Ann, Ann>> }

\* What the accounts endpoint may answer: a body with items, a body
\* without, and for the helper that does not parse, the body's text or a
\* text that is not JSON.
AccountResponses(h) ==
  LET bodies == { JObj(<<[k |-> <<"items">>, v |-> JArr(list)]>>) :
                    list \in AccountLists } \cup { JObj(<<>>) }
  IN IF h = "requestWithAuthentication"
       THEN { JStr(Stringify(b)) : b \in bodies }
              \cup { JStr(<<"<", "html", ">">>) }
       ELSE bodies

\* Fault: the name without the fallback to the username.
AccountName_FullnameOnly(account) == Prop(account, <<"fullname">>)

\* item.fullname || item.username
AccountName(account) ==
  LET fullname == Prop(account, <<"fullname">>)
  IN IF fullname # <<>> /\ Truthy(fullname[1])
       THEN fullname
       ELSE Prop(account, <<"username">>)

\* One dropdown entry of the list search.
AccountResult(account, cred) ==
  LET id == Prop(account, <<"id">>)
  IN [ name  |-> AccountName(account),
       value |-> id,
       url   |-> <<cred.server, "/v2/accounts/">>
                   \o (IF id = <<>> THEN <<"undefined">> ELSE TemplateText(id[1])) ]

\* The results mapped from the response, or the error the mapping throws.
AccountResults(h, responseData, cred) ==
  LET parsed == IF h = "requestWithAuthentication"
                  THEN JsonParse(responseData.s)
                  ELSE ParseOk(responseData, 0)
      items  == Prop(parsed.v, <<"items">>)
  IN IF ~parsed.ok
       THEN [error |-> <<RuntimeError("SyntaxError", 0)>>, results |-> <<>>]
     ELSE IF items = <<>> \/ ~IsArray(items[1])
       THEN [error |-> <<RuntimeError("TypeError", 0)>>, results |-> <<>>]
     ELSE [ error   |-> <<>>,
            results |-> <<[k \in 1..Len(items[1].a) |->
                            AccountResult(items[1].a[k], cred)]>> ]

SearchInit ==
  /\ inputLen = 0
  /\ continueOnFail = FALSE
  /\ credentials \in [server : Servers]
  /\ i = 0
  /\ pc = "done"
  /\ item = <<>>
  /\ options = <<>>
  /\ sent = <<>>
  /\ returnData = <<>>
  /\ thrown = <<>>
  /\ response = <<>>
  /\ helper \in {"requestWithAuthentication", "httpRequestWithAuthentication"}
  /\ searchPlatform \in SwitchPlatforms
  /\ searchPc = "start"
  /\ searchSent = <<>>
  /\ searchResponse = <<>>
  /\ searchReturn = <<>>
  /\ searchThrown = <<>>

\* getAccounts up to the await of the request.
GetAccountsRequest ==
  /\ searchPc = "start"
  /\ searchSent' = Append(searchSent,
       [ helper          |-> helper,
         credentialsType |-> CredentialName,
         method          |-> "GET",
         uri             |-> <<credentials.server, "/v2/users/me/accounts">>,
         qs              |-> [platform |-> searchPlatform] ])
  /\ searchPc' = "await"
  /\ UNCHANGED <<helper, searchPlatform, searchResponse, searchReturn,
                 searchThrown>>
  /\ UNCHANGED execVars

\* The helper resolves: the items of the response become the results.
GetAccountsResolves ==
  /\ searchPc = "await"
  /\ \E responseData \in AccountResponses(helper) :
       LET mapped == AccountResults(helper, responseData, credentials) IN
       /\ searchResponse' = <<responseData>>
       /\ IF mapped.error # <<>>
            THEN /\ searchThrown' = mapped.error
                 /\ searchPc' = "thrown"
                 /\ UNCHANGED searchReturn
            ELSE /\ searchReturn' = <<[results |-> mapped.results[1]]>>
                 /\ searchPc' = "returned"
                 /\ UNCHANGED searchThrown
  /\ UNCHANGED <<helper, searchPlatform, searchSent>>
  /\ UNCHANGED execVars

\* The helper rejects: the dropdown is empty.
GetAccountsRejects ==
  /\ searchPc = "await"
  /\ searchReturn' = <<[results |-> <<>>]>>
  /\ searchPc' = "returned"
  /\ UNCHANGED <<helper, searchPlatform, searchSent, searchResponse,
                 searchThrown>>
  /\ UNCHANGED execVars

SearchNext == GetAccountsRequest \/ GetAccountsResolves \/ GetAccountsRejects

SearchSpec == SearchInit /\ [][SearchNext]_vars

\* ------------------------------------------------------------- properties
\* Vocabulary of the properties below.
Awaiting == pc = "await"

\* The item at index i has been read (its request was built or refused).
Reading == item # <<>>

\* requestWithAuthentication was called for the item at index k.
RequestedFor(k) == \E n \in 1..Len(sent) : sent[n].item = k

\* execute threw a NodeOperationError for the item at index i, before any
\* request for it.
RefusedBeforeRequest ==
  /\ pc = "thrown"
  /\ thrown # <<>>
  /\ thrown[1].name = "NodeOperationError"
  /\ thrown[1].itemIndex = i
  /\ ~RequestedFor(i)

IsPostCreate(it) == it.resource = "post" /\ it.operation = "create"

IsBinaryUpload(it) ==
  it.resource = "media" /\ it.operation = "upload" /\ it.useBinaryData

\* C1: the (resource, operation) pair alone fixes the method and the path of
\* the request of an item; the uri is credentials.server followed by that
\* path, and every request goes through the authenticated helper with the
\* blotatoApi credential.
C1_Route(it) ==
  CASE it.resource = "video" /\ it.operation = "create" ->
         [method |-> "POST", path |-> <<"/v2/videos/from-templates">>]
    [] it.resource = "video" /\ it.operation = "get" ->
         [method |-> "GET", path |-> <<"/v2/videos/creations", "/", it.videoId>>]
    [] it.resource = "video" /\ it.operation = "delete" ->
         [method |-> "DELETE", path |-> <<"/v2/videos", "/", it.videoId>>]
    [] it.resource = "media" /\ it.operation = "upload" ->
         [method |-> "POST", path |-> <<"/v2/media">>]
    [] it.resource = "post" /\ it.operation = "create" ->
         [method |-> "POST", path |-> <<"/v2/posts">>]
    [] it.resource = "post" /\ it.operation = "get" ->
         [method |-> "GET", path |-> <<"/v2/posts", "/", it.postSubmissionId>>]
    [] OTHER -> [method |-> "none", path |-> <<>>]

\* C1: while a request is awaited, its method and uri are those of the route
\* of the item's (resource, operation), prefixed by the server, and the call
\* recorded for it names the blotatoApi credential.
C1_RouteByResourceOperation ==
  Awaiting =>
    LET route == C1_Route(item[1])
        call  == sent[Len(sent)]
    IN /\ route.method # "none"
       /\ options[1].method = route.method
       /\ options[1].uri = <<credentials.server>> \o route.path
       /\ call = [ item |-> i, credentialsType |-> "blotatoApi",
                   method |-> route.method,
                   uri |-> <<credentials.server>> \o route.path ]

C1_Witness ==
  /\ Awaiting
  /\ item[1].resource = "video"
  /\ item[1].operation = "delete"
  /\ options[1].uri = <<credentials.server, "/v2/videos", "/", "vid-1">>

\* The platforms the README lists as needing no media.
C2_OtherPlatforms == {"twitter", "linkedin", "facebook", "threads", "bluesky"}

C2_EmptyMedia(it) ==
  IsPostCreate(it) /\ ParseMediaUrls(it.postContentMediaUrls) = <<>>

\* C2 as stated: a post/create item with an empty media list is refused
\* before any request on instagram, tiktok, pinterest and youtube, and its
\* request is sent on twitter, linkedin, facebook, threads and bluesky.
C2_AsStated ==
  (Reading /\ C2_EmptyMedia(item[1])) =>
    /\ item[1].platform \in {"instagram", "tiktok", "pinterest", "youtube"}
         => RefusedBeforeRequest
    /\ item[1].platform \in C2_OtherPlatforms => RequestedFor(i)

\* The item was refused by the thread handling (thread posts that are not
\* valid JSON, or a null thread post).
C2_RefusedByThread ==
  /\ pc = "thrown"
  /\ ~RequestedFor(i)
  /\ item[1].platform \in THREAD_SUPPORTED_PLATFORMS
  /\ item[1].threadInputMethod = "array"
  /\ \/ thrown[1].message = <<"Thread Posts must be a valid JSON array.">>
     \/ thrown[1].name = "TypeError"

\* C2 amended: with an empty media list, instagram, tiktok, pinterest and
\* youtube items are refused with the media error before any request; on the
\* other five platforms the item is never refused for its media, and its
\* request is sent unless its thread posts are refused.
C2_MediaRequired ==
  (Reading /\ C2_EmptyMedia(item[1])) =>
    /\ item[1].platform \in {"instagram", "tiktok", "pinterest", "youtube"}
         => /\ RefusedBeforeRequest
            /\ thrown[1].message =
                 <<Capitalize(item[1].platform),
                   " requires you to post an image or video.">>
    /\ item[1].platform \in C2_OtherPlatforms
         => RequestedFor(i) \/ C2_RefusedByThread

C2_Witness ==
  /\ Reading
  /\ C2_EmptyMedia(item[1])
  /\ item[1].platform = "youtube"
  /\ RefusedBeforeRequest
  /\ thrown[1].message = <<"Youtube", " requires you to post an image or video.">>

\* C3 as stated: under continueOnFail no error of an item makes execute
\* throw; the item gets an error output item paired with it.
C3_AsStated ==
  continueOnFail =>
    /\ pc # "thrown"
    /\ thrown = <<>>

\* C4: an item of an unsupported resource, operation or platform.
C4_Unsupported(it) ==
  \/ it.resource \notin {"video", "media", "post"}
  \/ it.resource = "video" /\ it.operation \notin {"create", "get", "delete"}
  \/ it.resource = "media" /\ it.operation # "upload"
  \/ it.resource = "post" /\ it.operation \notin {"create", "get"}
  \/ /\ IsPostCreate(it)
     /\ it.platform \notin
          {"twitter", "linkedin", "facebook", "instagram", "pinterest",
           "tiktok", "threads", "bluesky", "youtube"}

\* C4: an item whose resource, operation or platform is not supported makes
\* execute throw a NodeOperationError, and no request is issued for it.
C4_UnsupportedRefused ==
  (Reading /\ C4_Unsupported(item[1])) => RefusedBeforeRequest

C4_Witness ==
  /\ Reading
  /\ IsPostCreate(item[1])
  /\ item[1].platform = "mastodon"
  /\ RefusedBeforeRequest

\* C5: in every post/create request targetType and content.platform are the
\* selected platform, and a platform's own target fields are set for that
\* platform only, whatever the options collection carries.
C5_TargetFieldsOfPlatform ==
  (Awaiting /\ IsPostCreate(item[1])) =>
    LET pl   == item[1].platform
        post == options[1].body[1].post
        t    == post.target
        set(f) == t[f] # <<>>
    IN /\ t.targetType = pl
       /\ post.content.platform = pl
       /\ set("pageId") => pl \in {"facebook", "linkedin"}
       /\ set("mediaType") => pl \in {"facebook", "instagram"}
       /\ set("boardId") => pl = "pinterest"
       /\ set("replyControl") => pl = "threads"
       /\ \A f \in {"privacyLevel", "disabledComments", "disabledDuet",
                    "disabledStitch", "isBrandedContent", "isYourBrand",
                    "isAiGenerated", "autoAddMusic", "isDraft",
                    "imageCoverIndex", "videoCoverTimestamp"} :
            set(f) => pl = "tiktok"
       /\ \A f \in {"privacyStatus", "shouldNotifySubscribers"} :
            set(f) => pl = "youtube"
       /\ \A f \in {"collaborators", "audioName"} :
            set(f) => pl = "instagram"

C5_Witness ==
  /\ Awaiting
  /\ IsPostCreate(item[1])
  /\ item[1].platform = "bluesky"
  /\ item[1].options = AllOptions
  /\ options[1].body[1].post.target = CommonTarget("bluesky")

\* The scheduled time an item gives, <<>> when the option is empty or unset.
GivenScheduledTime(it) ==
  IF it.options.scheduledTime # <<>> /\ it.options.scheduledTime[1] # <<>>
    THEN it.options.scheduledTime
    ELSE <<>>

\* A text ends with the pieces of `tail`, each digit position holding a digit.
C6_EndsWithOffset(s, colon) ==
  LET n == Len(s)
      w == IF colon THEN 6 ELSE 5
  IN /\ n >= w
     /\ s[n - w + 1] \in {"+", "-"}
     /\ s[n - w + 2] \in Digits
     /\ s[n - w + 3] \in Digits
     /\ IF colon
          THEN s[n - 2] = ":" /\ s[n - 1] \in Digits /\ s[n] \in Digits
          ELSE s[n - 1] \in Digits /\ s[n] \in Digits

\* A date-time text specifies its timezone: a trailing Z or a numeric UTC
\* offset (ISO 8601: +hh:mm, -hh:mm, +hhmm, -hhmm).
C6_SpecifiesTimezone(s) ==
  \/ (s # <<>> /\ s[Len(s)] = "Z")
  \/ C6_EndsWithOffset(s, TRUE)
  \/ C6_EndsWithOffset(s, FALSE)

\* C6 as stated: a non-empty scheduled time is sent at the root of the body
\* and always carries a timezone: Z is appended exactly when the value
\* specifies none, and a value that specifies one is sent unchanged; an empty
\* option gives a body without scheduledTime.
C6_AsStated ==
  (Awaiting /\ IsPostCreate(item[1])) =>
    LET given == GivenScheduledTime(item[1])
        body  == options[1].body[1]
    IN IF given = <<>> THEN body.scheduledTime = <<>>
       ELSE /\ body.scheduledTime # <<>>
            /\ C6_SpecifiesTimezone(body.scheduledTime[1])
            /\ IF C6_SpecifiesTimezone(given[1])
                 THEN body.scheduledTime[1] = given[1]
                 ELSE body.scheduledTime[1] = given[1] \o <<"Z">>

\* The request body of the awaited item had useNextFreeSlot been the other
\* value.
C7_BodyWithOtherSlot ==
  BuildOptions([item[1] EXCEPT !.useNextFreeSlot = ~@], i).options[1].body[1]

C7_Scheduled ==
  Awaiting /\ IsPostCreate(item[1]) /\ GivenScheduledTime(item[1]) # <<>>

C8_AsStated ==
  (Reading /\ IsBinaryUpload(item[1]) /\ item[1].binary # <<>>) =>
    IF item[1].binary[1].buffer.length <= 60 * 1024 * 1024
      THEN RequestedFor(i)
      ELSE RefusedBeforeRequest

C10_UploadBody ==
  (Reading /\ item[1].resource = "media" /\ item[1].operation = "upload") =>
    LET it == item[1] IN
    /\ (it.useBinaryData /\ it.binary = <<>>) => RefusedBeforeRequest
    /\ Awaiting =>
         options[1].body =
           << [ url |->
                  IF ~it.useBinaryData THEN <<it.mediaUrl>>
                  ELSE << "data:",
                          IF it.binary[1].mimeType = ""
                            THEN "application/octet-stream"
                            ELSE it.binary[1].mimeType,
                          ";base64," >> \o ToBase64(it.binary[1].buffer) ] >>

C10_Witness ==
  /\ Awaiting
  /\ IsBinaryUpload(item[1])
  /\ item[1].binary[1].mimeType = ""
  /\ options[1].body[1].url =
       <<"data:", "application/octet-stream", ";base64,", "base64:", "bytes">>

\* ------------------------------------------------------------- C11
\* The item at index i is a post/create for instagram whose request is with
\* the helper.
C11_InstagramAwaited ==
  /\ Awaiting
  /\ IsPostCreate(item[1])
  /\ item[1].platform = "instagram"

\* The usernames of the comma-separated input: its segments, trimmed, without
\* the empty ones, in input order.
C11_Usernames(postOptions) ==
  IF postOptions.instagramCollaborators = <<>> THEN <<>>
  ELSE LET segments == Split(postOptions.instagramCollaborators[1], ",")
           trimmed  == [k \in 1..Len(segments) |-> Trim(segments[k])]
       IN SelectSeq(trimmed, LAMBDA name : Len(name) > 0)

C11_IsTrimmedName(name) ==
  /\ Len(name) > 0
  /\ name[1] \notin Whitespace
  /\ name[Len(name)] \notin Whitespace

\* C11: on post/create for instagram, post.target.collaborators, when
\* present, has 1 to 3 entries, each a non-empty trimmed username, and is the
\* first three non-empty entries of the comma-separated input in input
\* order; it is absent when the input holds no non-empty username.
C11_CollaboratorsLimited ==
  C11_InstagramAwaited =>
    LET given == C11_Usernames(item[1].options)
        sentC == options[1].body[1].post.target.collaborators
    IN IF Len(given) = 0 THEN sentC = <<>>
       ELSE /\ sentC # <<>>
            /\ Len(sentC[1]) \in 1..3
            /\ \A k \in 1..Len(sentC[1]) : C11_IsTrimmedName(sentC[1][k])
            /\ Len(sentC[1]) = (IF Len(given) < 3 THEN Len(given) ELSE 3)
            /\ \A k \in 1..Len(sentC[1]) : sentC[1][k] = given[k]

\* Five usernames with blank entries between them were given and the request
\* carries the first three.
C11_Witness ==
  /\ C11_InstagramAwaited
  /\ Len(C11_Usernames(item[1].options)) = 5
  /\ options[1].body[1].post.target.collaborators = <<<< <<"a">>, <<"b">>, <<"c">> >>>>

\* ------------------------------------------------------------- C12
\* The number of calls of the request helper for the item at index k.
C12_Requests(k) == Cardinality({n \in 1..Len(sent) : sent[n].item = k})

\* The output holds an error item for the item at index k.
C12_FailedItem(k) ==
  \E n \in 1..Len(returnData) :
    /\ returnData[n].error # <<>>
    /\ returnData[n].pairedItem.item = k

\* execute threw the NodeApiError of a rejected request.
C12_FailedThrow ==
  pc = "thrown" /\ thrown # <<>> /\ thrown[1].name = "NodeApiError"

\* C12: for each input item execute issues at most one HTTP request, and a
\* request that failed is never issued again, with or without continueOnFail:
\* an item whose request was rejected has exactly one request in the
\* calls made so far, whether it became an error item or made execute throw.
C12_NoRetry ==
  /\ \A k \in 0..MaxItems : C12_Requests(k) <= 1
  /\ \A k \in 0..MaxItems : C12_FailedItem(k) => C12_Requests(k) = 1
  /\ C12_FailedThrow =>
       /\ C12_Requests(thrown[1].itemIndex) = 1
       /\ sent[Len(sent)].item = thrown[1].itemIndex

\* Under continueOnFail the request of the first item was rejected, and the
\* node has gone on to the request of the second item.
C12_Witness ==
  /\ continueOnFail
  /\ C12_FailedItem(0)
  /\ Awaiting
  /\ i = 1
  /\ Len(sent) = 2

\* ------------------------------------------------------------- C13
\* The item at index i is a post/create on a thread-capable platform with the
\* thread input method 'array'.
C13_ArrayThread(it) ==
  /\ IsPostCreate(it)
  /\ it.platform \in THREAD_SUPPORTED_PLATFORMS
  /\ it.threadInputMethod = "array"

\* The value is a JSON array: an array, or text that parses to one.
C13_IsJsonArray(v) ==
  \/ IsArray(v)
  \/ /\ IsString(v)
     /\ JsonParse(v.s).ok
     /\ IsArray(JsonParse(v.s).v)

\* C13: with thread input method 'array' on a thread-capable platform, any
\* threadPostsArray value that is not a JSON array (text that does not
\* parse, or JSON that parses to something other than an array) makes
\* execute fail with a NodeOperationError and no request is sent for the item.
C13_AsStated ==
  (Reading /\ C13_ArrayThread(item[1])
           /\ ~C13_IsJsonArray(item[1].threadPostsArray))
    => RefusedBeforeRequest

\* ------------------------------------------------------------- C14
\* getAccounts returned the results mapped from a response.
C14_Returned == searchPc = "returned" /\ searchResponse # <<>>

\* The items of the response the helper resolved with.
C14_ResponseItems ==
  LET body == IF IsString(searchResponse[1])
                THEN JsonParse(searchResponse[1].s).v
                ELSE searchResponse[1]
  IN Prop(body, <<"items">>)[1].a

C14_Empty(v) == v = <<>> \/ v[1] = JStr(<<>>)

\* C14: getAccounts issues one GET to /v2/users/me/accounts with the
\* selected platform as query parameter and returns exactly one result per
\* element of the response's items, in the same order, with value = item.id
\* and name = item.fullname, falling back to item.username when fullname is
\* empty.
C14_AccountsReshaped ==
  /\ Len(searchSent) <= 1
  /\ searchPc \in {"await", "returned", "thrown"} =>
       /\ Len(searchSent) = 1
       /\ searchSent[1].method = "GET"
       /\ searchSent[1].uri = <<credentials.server, "/v2/users/me/accounts">>
       /\ searchSent[1].qs = [platform |-> searchPlatform]
       /\ searchSent[1].credentialsType = "blotatoApi"
  /\ C14_Returned =>
       LET results == searchReturn[1].results
           items   == C14_ResponseItems
       IN /\ Len(results) = Len(items)
          /\ \A k \in 1..Len(items) :
               /\ results[k].value = Prop(items[k], <<"id">>)
               /\ results[k].name =
                    (IF C14_Empty(Prop(items[k], <<"fullname">>))
                       THEN Prop(items[k], <<"username">>)
                       ELSE Prop(items[k], <<"fullname">>))

\* Three accounts came back as JSON text, the first without a full name, and
\* the dropdown lists them in that order, the first under its username.
C14_Witness ==
  /\ C14_Returned
  /\ helper = "requestWithAuthentication"
  /\ Len(searchReturn[1].results) = 3
  /\ searchReturn[1].results[1].name = <<JStr(<<"bob">>)>>
  /\ searchReturn[1].results[1].value = <<JStr(<<"2">>)>>
  /\ searchReturn[1].results[3].name = <<JStr(<<"Ann", " ", "A">>)>>

\* ------------------------------------------------------------- C15
\* The request of a video/create item is with the helper.
C15_VideoCreateAwaited ==
  /\ Awaiting
  /\ item[1].resource = "video"
  /\ item[1].operation = "create"

\* The value is a string whose trimmed text starts with '[' or '{'.
C15_LooksLikeJson(value) ==
  /\ IsString(value)
  /\ Trim(value.s) # <<>>
  /\ Trim(value.s)[1] \in {"[", "{"}

\* C15: the video/create body is {templateId, inputs, prompt, render: true}
\* with render true for every item; inputs are the mapped template input
\* values, where a string value whose trimmed text starts with '[' or '{' is
\* replaced by its parsed JSON when it parses and is left as the original
\* string, without failing the item, when it does not parse.
C15_VideoCreateBody ==
  /\ (Reading /\ item[1].resource = "video" /\ item[1].operation = "create")
       => RequestedFor(i)
  /\ C15_VideoCreateAwaited =>
       LET body   == options[1].body[1]
           mapped == IF item[1].templateInputs.value = <<>> THEN <<>>
                     ELSE item[1].templateInputs.value[1]
       IN /\ DOMAIN body = {"templateId", "inputs", "prompt", "render"}
          /\ body.render = TRUE
          /\ body.templateId = item[1].templateId.value
          /\ body.prompt = item[1].prompt
          /\ Len(body.inputs) = Len(mapped)
          /\ \A k \in 1..Len(mapped) :
               /\ body.inputs[k].k = mapped[k].k
               /\ IF C15_LooksLikeJson(mapped[k].v)
                       /\ JsonParse(Trim(mapped[k].v.s)).ok
                    THEN body.inputs[k].v = JsonParse(Trim(mapped[k].v.s)).v
                    ELSE body.inputs[k].v = mapped[k].v

\* A padded '[1,2]' was sent as the array and an unfinished '{1' as the text
\* it was given as.
C15_Witness ==
  /\ C15_VideoCreateAwaited
  /\ \E k \in 1..Len(options[1].body[1].inputs) :
       /\ options[1].body[1].inputs[k].k = "slides"
       /\ options[1].body[1].inputs[k].v = JArr(<<JNum(<<"1">>), JNum(<<"2">>)>>)
  /\ \E k \in 1..Len(options[1].body[1].inputs) :
       /\ options[1].body[1].inputs[k].k = "config"
       /\ options[1].body[1].inputs[k].v = JStr(<<"{", "1">>)

\* ------------------------------------------------------------- C16
\* The id options.linkedinPageId yields: the value of a locator object, or
\* the plain string; "" when the option is not given.
C16_GivenPageId(postOptions) ==
  IF postOptions.linkedinPageId = <<>> THEN ""
  ELSE postOptions.linkedinPageId[1].value

\* C16: on post/create for linkedin, post.target.pageId is set if and only
\* if options.linkedinPageId yields a non-empty id (the value of a locator
\* object, or a plain string), and is then equal to that id; for facebook,
\* post.target.pageId is always set from the facebookPageId parameter.
C16_PageId ==
  (Awaiting /\ IsPostCreate(item[1])) =>
    LET pageId == options[1].body[1].post.target.pageId
        id     == C16_GivenPageId(item[1].options)
    IN /\ item[1].platform = "linkedin" =>
            /\ (pageId # <<>>) <=> (id # "")
            /\ pageId # <<>> => pageId[1] = id
       /\ item[1].platform = "facebook" =>
            pageId = <<item[1].facebookPageId.value>>

\* A LinkedIn post whose company page was given as a plain string.
C16_Witness ==
  /\ Awaiting
  /\ IsPostCreate(item[1])
  /\ item[1].platform = "linkedin"
  /\ item[1].options.linkedinPageId = <<[isObject |-> FALSE, value |-> "li-page"]>>
  /\ options[1].body[1].post.target.pageId = <<"li-page">>

\* ------------------------------------------------------------- C17
\* Requests and outputs follow the index order, one item at a time: the
\* request of an item is issued when the outputs of all items before it
\* have been appended.
C17_InOrder ==
  /\ \A n \in 1..Len(sent) : sent[n].item = n - 1
  /\ \A n \in 1..Len(returnData) : returnData[n].pairedItem.item = n - 1
  /\ pc = "build" => (Len(sent) = i /\ Len(returnData) = i)
  /\ pc = "await" => (Len(sent) = i + 1 /\ Len(returnData) = i)

\* With continueOnFail off a failed item makes execute throw: no error item
\* is ever appended, and when execute threw for item k no request exists
\* for an item after k.
C17_ThrowsAtFailure ==
  /\ ~continueOnFail =>
       \A n \in 1..Len(returnData) : returnData[n].error = <<>>
  /\ pc = "thrown" =>
       /\ thrown # <<>>
       /\ thrown[1].itemIndex = i
       /\ \A n \in 1..Len(sent) : sent[n].item <= i

\* Once execute threw, nothing more happens: no request, no output, no
\* return.  A request is only ever added for the item at the loop index.
C17_Step ==
  /\ pc = "thrown" => (pc' = "thrown" /\ sent' = sent /\ returnData' = returnData)
  /\ sent' # sent =>
       /\ pc = "build"
       /\ Len(sent') = Len(sent) + 1
       /\ sent'[Len(sent')].item = i

\* C17: input items are processed strictly in index order, one at a time,
\* and the request for item i+1 is issued only after item i's response was
\* received and its output appended.  When item k fails and continueOnFail
\* is off, execute throws, no request is issued for any item after k, and
\* no output is returned although the requests for the items before k were
\* already sent.
C17_Sequential ==
  [](C17_InOrder /\ C17_ThrowsAtFailure) /\ [][C17_Step]_vars

\* The request of the second item was rejected with continueOnFail off:
\* execute threw, and the output of the first item, whose request was sent
\* and answered, is not returned.
C17_Witness ==
  /\ ~continueOnFail
  /\ pc = "thrown"
  /\ thrown[1].name = "NodeApiError"
  /\ i = 1
  /\ Len(sent) = 2
  /\ Len(returnData) = 1

\* ------------------------------------------------------------- C18
\* execute returned [returnData].
C18_Returned == pc = "done"

\* One output item per input item, in input order, each paired with its
\* input item.
C18_OnePerItem ==
  C18_Returned =>
    /\ Len(returnData) = inputLen
    /\ \A n \in 1..Len(returnData) : returnData[n].pairedItem.item = n - 1

\* Under continueOnFail the rejected request of item i puts an error item
\* with json.error at position i of the output.
C18_ErrorItemInPlace ==
  (RequestFails /\ continueOnFail) =>
    /\ Len(returnData') = i + 1
    /\ returnData'[i + 1].pairedItem.item = i
    /\ returnData'[i + 1].error # <<>>
    /\ "error" \in DOMAIN returnData'[i + 1].json
    /\ returnData'[i + 1].json.error # <<>>
    /\ SubSeq(returnData', 1, i) = returnData

\* C18: whenever execute returns, it returns a single output branch holding
\* exactly one output item per input item, in input order, and the item at
\* position i has pairedItem.item = i; under continueOnFail an item whose
\* request failed is represented at its position by an error item carrying
\* json.error.
C18_OutputPairing == []C18_OnePerItem /\ [][C18_ErrorItemInPlace]_vars

\* execute returned two items under continueOnFail: the second one is the
\* error item of a rejected request, the first one an answer.
C18_Witness ==
  /\ C18_Returned
  /\ continueOnFail
  /\ inputLen = 2
  /\ Len(returnData) = 2
  /\ returnData[1].error = <<>>
  /\ returnData[2].error # <<>>
  /\ returnData[2].pairedItem.item = 1

\* ------------------------------------------------------------- C19
\* The entry has text and no whitespace at either end.
C19_IsTrimmedEntry(url) ==
  /\ Len(url) > 0
  /\ url[1] \notin Whitespace
  /\ url[Len(url)] \notin Whitespace

\* The segments of the comma-separated text, trimmed, without the empty
\* ones, in their order.
C19_Segments(text) ==
  LET parts   == Split(text, ",")
      trimmed == [k \in 1..Len(parts) |-> Trim(parts[k])]
  IN SelectSeq(trimmed, LAMBDA part : Len(part) > 0)

\* The non-empty string elements of an array, in their order.
C19_StringElements(elems) ==
  LET kept == SelectSeq(elems, LAMBDA e : e.t = "string" /\ Len(e.s) > 0)
  IN [k \in 1..Len(kept) |-> kept[k].s]

\* C19: on post/create, post.content.mediaUrls built from the
\* comma-separated Media URLs string is the sequence of whitespace-trimmed,
\* non-empty segments in their original order: it never contains an empty
\* or whitespace-padded entry, and an empty or blank string gives the empty
\* list.  An array parameter is used directly, keeping only its non-empty
\* string elements in order, and any other parameter type gives the empty
\* list.
C19_MediaUrls ==
  (Awaiting /\ IsPostCreate(item[1])) =>
    LET given     == item[1].postContentMediaUrls
        mediaUrls == options[1].body[1].post.content.mediaUrls
    IN CASE given.t = "string" ->
              /\ mediaUrls = C19_Segments(given.s)
              /\ \A k \in 1..Len(mediaUrls) : C19_IsTrimmedEntry(mediaUrls[k])
              /\ (\A k \in 1..Len(given.s) : given.s[k] \in Whitespace)
                   => mediaUrls = <<>>
         [] given.t = "array" -> mediaUrls = C19_StringElements(given.a)
         [] OTHER -> mediaUrls = <<>>

\* The text " a ,, b," was sent as the two URLs a and b.
C19_Witness ==
  /\ Awaiting
  /\ IsPostCreate(item[1])
  /\ item[1].postContentMediaUrls =
       JStr(<<" ", "a", " ", ",", ",", " ", "b", ",">>)
  /\ options[1].body[1].post.content.mediaUrls = << <<"a">>, <<"b">> >>

\* ------------------------------------------------------------- C20
\* The posts the chosen thread input yields: the entries of the manual
\* collection, or the elements of the array (given as an array or as JSON
\* text); none for any other input.
C20_InputPosts(it) ==
  IF it.threadInputMethod = "manual"
    THEN [k \in 1..Len(it.postContentAdditionalPosts.posts) |->
            JObj(<<[k |-> <<"text">>,
                    v |-> JStr(it.postContentAdditionalPosts.posts[k].text)]>>)]
  ELSE IF it.threadInputMethod = "array"
    THEN LET given == it.threadPostsArray
         IN IF given.t = "array" THEN given.a
            ELSE IF given.t = "string" /\ JsonParse(given.s).ok
                    /\ JsonParse(given.s).v.t = "array"
              THEN JsonParse(given.s).v.a
            ELSE <<>>
  ELSE <<>>

\* The text of an input post, '' when it has none.
C20_TextOf(post) ==
  IF Prop(post, <<"text">>) # <<>> /\ Truthy(Prop(post, <<"text">>)[1])
    THEN Prop(post, <<"text">>)[1]
    ELSE JStr(<<>>)

\* C20: post.content.additionalPosts is present in a post/create body only
\* when the platform is twitter, threads or bluesky and the chosen thread
\* input (manual collection or array) yields at least one post; when
\* present it has the same length and order as that input and every entry
\* has a text and a list-valued mediaUrls.  For every other platform it is
\* never present, whatever the thread parameters hold.
C20_AdditionalPosts ==
  (Awaiting /\ IsPostCreate(item[1])) =>
    LET additionalPosts == options[1].body[1].post.content.additionalPosts
        input           == C20_InputPosts(item[1])
    IN /\ item[1].platform \notin {"twitter", "threads", "bluesky"}
            => additionalPosts = <<>>
       /\ additionalPosts # <<>> =>
            /\ item[1].platform \in {"twitter", "threads", "bluesky"}
            /\ Len(input) >= 1
            /\ Len(additionalPosts[1]) = Len(input)
            /\ \A k \in 1..Len(input) :
                 /\ DOMAIN additionalPosts[1][k] = {"text", "mediaUrls"}
                 /\ additionalPosts[1][k].text = C20_TextOf(input[k])
                 /\ DOMAIN additionalPosts[1][k].mediaUrls
                      = 1..Len(additionalPosts[1][k].mediaUrls)

\* A thread of two posts given as JSON text on bluesky went out as two
\* additional posts, the second with its comma-separated media split.
C20_Witness ==
  /\ Awaiting
  /\ IsPostCreate(item[1])
  /\ item[1].platform = "bluesky"
  /\ item[1].threadInputMethod = "array"
  /\ item[1].threadPostsArray.t = "string"
  /\ options[1].body[1].post.content.additionalPosts # <<>>
  /\ Len(options[1].body[1].post.content.additionalPosts[1]) = 2
  /\ options[1].body[1].post.content.additionalPosts[1][1].text = JStr(<<"p1">>)
  /\ options[1].body[1].post.content.additionalPosts[1][2].mediaUrls
       = <<JStr(<<"a">>), JStr(<<"b">>)>>

\* ------------------------------------------------------------- C21
\* The item is a video lookup or delete without a video id.
C21_VideoWithoutId(it) ==
  /\ it.resource = "video"
  /\ it.operation \in {"get", "delete"}
  /\ it.videoId = ""

\* The item is a post lookup without a post submission id.
C21_PostWithoutId(it) ==
  /\ it.resource = "post"
  /\ it.operation = "get"
  /\ it.postSubmissionId = ""

\* C21: video/get and video/delete with an empty videoId, and post/get with
\* an empty postSubmissionId, fail with a NodeOperationError ('Video ID is
\* required' / 'Post Submission ID is required') before any HTTP request is
\* issued for the item.
C21_IdRequired ==
  /\ (Reading /\ C21_VideoWithoutId(item[1])) =>
       /\ RefusedBeforeRequest
       /\ thrown[1].message = <<"Video ID is required">>
  /\ (Reading /\ C21_PostWithoutId(item[1])) =>
       /\ RefusedBeforeRequest
       /\ thrown[1].message = <<"Post Submission ID is required">>

\* The second item is a video/delete without an id: it was refused, and the
\* only request made is the one of the first item.
C21_Witness ==
  /\ Reading
  /\ C21_VideoWithoutId(item[1])
  /\ item[1].operation = "delete"
  /\ i = 1
  /\ RefusedBeforeRequest
  /\ Len(sent) = 1

\* ------------------------------------------------------------- C22
\* The request of a post/create for tiktok is with the helper.
C22_TiktokAwaited ==
  /\ Awaiting
  /\ IsPostCreate(item[1])
  /\ item[1].platform = "tiktok"

\* C22: on post/create for tiktok with isDraft = true,
\* post.target.imageCoverIndex and post.target.videoCoverTimestamp carry no
\* value whatever the options collection holds; with isDraft = false they
\* equal options.imageCoverIndex and options.videoCoverTimestamp.
\* post.target.isDraft always equals the Post As Draft parameter, and title
\* is present only when the Slideshow Title parameter is non-empty.
C22_TiktokDraft ==
  C22_TiktokAwaited =>
    LET target == options[1].body[1].post.target
        it     == item[1]
    IN /\ target.isDraft = <<it.postCreateTiktokOptionIsDraft>>
       /\ it.postCreateTiktokOptionIsDraft =>
            /\ target.imageCoverIndex = <<>>
            /\ target.videoCoverTimestamp = <<>>
       /\ ~it.postCreateTiktokOptionIsDraft =>
            /\ target.imageCoverIndex = it.options.imageCoverIndex
            /\ target.videoCoverTimestamp = it.options.videoCoverTimestamp
       /\ (target.title # <<>>) <=> (it.postCreateTiktokOptionTitle # "")
       /\ target.title # <<>> => target.title[1] = it.postCreateTiktokOptionTitle

\* A TikTok draft with a slideshow title whose options hold a cover index
\* and a cover timestamp: the title is sent, the cover settings are not.
C22_Witness ==
  /\ C22_TiktokAwaited
  /\ item[1].postCreateTiktokOptionIsDraft
  /\ item[1].options.imageCoverIndex = <<2>>
  /\ item[1].options.videoCoverTimestamp = <<1500>>
  /\ options[1].body[1].post.target.imageCoverIndex = <<>>
  /\ options[1].body[1].post.target.videoCoverTimestamp = <<>>
  /\ options[1].body[1].post.target.title = <<"a title">>

\* ------------------------------------------------------------- C23
\* The request of a video/get item is with the helper.
C23_VideoGetAwaited ==
  /\ Awaiting
  /\ item[1].resource = "video"
  /\ item[1].operation = "get"

\* The response as an object: text is read as JSON.
C23_Body(r) == IF r.t = "string" THEN JsonParse(r.s).v ELSE r

\* item.status of the response, <<>> when it has no item or no status.
C23_Status(r) ==
  LET itemProp == Prop(C23_Body(r), <<"item">>)
  IN IF itemProp = <<>> THEN <<>> ELSE Prop(itemProp[1], <<"status">>)

C23_NotDoneYet(r) ==
  C23_Status(r) \in { <<JStr(<<"generating-script">>)>>,
                      <<JStr(<<"script-ready">>)>>,
                      <<JStr(<<"queueing">>)>> }

\* The step in which the response of a video/get arrives gives an output
\* item: the response with item._hint when the video is not done yet, the
\* response as it came in every other case.
C23_AsStatedStep ==
  (C23_VideoGetAwaited /\ response' # <<>>) =>
    /\ Len(returnData') = Len(returnData) + 1
    /\ LET json == returnData'[Len(returnData')].json
           r    == response'[1]
       IN IF C23_NotDoneYet(r)
            THEN json = SetProp(C23_Body(r), <<"item">>,
                          SetProp(Prop(C23_Body(r), <<"item">>)[1],
                                  <<"_hint">>, VideoHint))
            ELSE json = r

\* C23: for video/get, when the response's item.status is one of
\* 'generating-script', 'script-ready', 'queueing', the output json is the
\* response with item._hint set to the not-done-yet message; for every other
\* status, or when the response has no item/status, the output json is the
\* response unchanged.
C23_AsStated == [][C23_AsStatedStep]_vars

\* ------------------------------------------------------------- C24
\* The step in which the response of a post/get becomes an output item.
C24_PostGetOutput ==
  /\ Awaiting
  /\ item[1].resource = "post"
  /\ item[1].operation = "get"
  /\ response' # <<>>
  /\ Len(returnData') = Len(returnData) + 1

\* The response as an object: text is read as JSON.
C24_Body(r) == IF r.t = "string" THEN JsonParse(r.s).v ELSE r

\* The fields of an object other than _hint, in their order.
C24_OtherFields(obj) == SelectSeq(obj.o, LAMBDA m : m.k # <<"_hint">>)

C24_Has(obj, key) == Prop(obj, key) # <<>> /\ Truthy(Prop(obj, key)[1])

C24_Contains(text, part) ==
  \E k \in 1..Len(text) : SubSeq(text, k, k + Len(part) - 1) = part

\* The status of the response asks for a hint: in-progress, failed with an
\* errorMessage, published with a publicUrl.
C24_AsksForHint(body) ==
  LET status == Prop(body, <<"status">>)
  IN \/ status = <<JStr(<<"in-progress">>)>>
     \/ status = <<JStr(<<"failed">>)>> /\ C24_Has(body, <<"errorMessage">>)
     \/ status = <<JStr(<<"published">>)>> /\ C24_Has(body, <<"publicUrl">>)

\* The hint is the one the status of the response asks for.
C24_HintFits(body, hint) ==
  LET status == Prop(body, <<"status">>)
  IN CASE status = <<JStr(<<"in-progress">>)>> -> hint = PostInProgressHint
       [] status = <<JStr(<<"failed">>)>> ->
            /\ hint.t = "string"
            /\ C24_Contains(hint.s, Prop(body, <<"errorMessage">>)[1].s)
       [] status = <<JStr(<<"published">>)>> ->
            /\ hint.t = "string"
            /\ C24_Contains(hint.s, Prop(body, <<"publicUrl">>)[1].s)
       [] OTHER -> FALSE

\* The output of a post/get, given which responses count as having a _hint
\* of their own: such a response comes out as it is; any other one comes out
\* with the hint its status asks for, or as it is when its status asks for
\* none; the fields other than _hint are always those of the response.
C24_Output(body, json, hasOwnHint) ==
  /\ json.t = "object"
  /\ C24_OtherFields(json) = C24_OtherFields(body)
  /\ IF ~hasOwnHint /\ C24_AsksForHint(body)
       THEN /\ Prop(json, <<"_hint">>) # <<>>
            /\ C24_HintFits(body, Prop(json, <<"_hint">>)[1])
       ELSE json = body

\* C24 as stated: the node adds _hint only when the response has no _hint
\* of its own: status 'in-progress' adds the still-processing hint, status
\* 'failed' with an errorMessage adds a hint containing that message, status
\* 'published' with a publicUrl adds a hint containing that URL, and any
\* other case adds nothing; an existing _hint is never overwritten and
\* every other field of the response is left unchanged.
C24_AsStated ==
  [][C24_PostGetOutput =>
       C24_Output(C24_Body(response'[1]),
                  returnData'[Len(returnData')].json,
                  Prop(C24_Body(response'[1]), <<"_hint">>) # <<>>)]_vars

\* C24, amended: a _hint counts as the response's own when it is not empty
\* (not '', not null).  Such a hint is never overwritten; a response
\* without one gets the hint its status asks for (in-progress; failed with
\* an errorMessage; published with a publicUrl), which replaces an empty
\* _hint, and nothing in any other case; every other field of the response
\* is left unchanged.
C24_HintAdded ==
  [][C24_PostGetOutput =>
       C24_Output(C24_Body(response'[1]),
                  returnData'[Len(returnData')].json,
                  C24_Has(C24_Body(response'[1]), <<"_hint">>))]_vars

\* A failed post with an errorMessage and no hint came out with the hint
\* that quotes the message.
C24_Witness ==
  /\ response = <<PostResponse("failed", "errorMessage", "rejected")>>
  /\ returnData # <<>>
  /\ returnData[Len(returnData)].json =
       SetProp(response[1], <<"_hint">>,
               JStr(<<" Post failed: ", "rejected">>))

====
